---------------------------- MODULE Spec2Model ----------------------------
(***************************************************************************)
(* A model of the gt2 car-asset codec (src/extract): packed bit fields,    *)
(* the CarObject byte layout, the UV rasterizer, the per-face palette      *)
(* extractor, the colour quantizer and palette merger, and the 4bpp index  *)
(* packer.                                                                 *)
(*                                                                         *)
(* The program is single threaded.  Each group of operations has one state *)
(* variable holding a record (its inputs, its results and its position     *)
(* "pc"), and one specification that draws the inputs in its initial       *)
(* states and applies the operations.  A group that a specification does   *)
(* not exercise stays at Idle.                                             *)
(***************************************************************************)
EXTENDS Integers, Sequences, FiniteSets, TLC

VARIABLES quant,    \* QuantizeColors (util/color.h)
          merge,    \* MergePalettes (car_from_obj.h)
          codec,    \* CarObject / Model / Shadow FromStream and Serialize (car.h)
          pix,      \* CarPix::Pixels and PackCarPixData
          bits,     \* Unpack and the field setters (util/bitpack.h, car.h)
          scale,    \* UpdateFromObj scale selection (car_from_obj.h)
          raster,   \* DrawTriangle and ExtractFacePalette
          carpix,   \* CarPix::FromStream and CarPix::Serialize (car.h)
          tool,     \* PackCdo (cdotool.cpp), Model counts, MakeWheel
          faces     \* TransferNormals, AssignPaletteIndicesToFaces, TexFace

vars ==
  <<quant, merge, codec, pix, bits, scale, raster, carpix, tool, faces>>

Idle == [pc |-> "idle"]

-----------------------------------------------------------------------------
(* Generic helpers.                                                        *)

Pow2(k) == 2 ^ k

Min(a, b) == IF a < b THEN a ELSE b
Max(a, b) == IF a > b THEN a ELSE b
Abs(a) == IF a < 0 THEN 0 - a ELSE a

RECURSIVE SumSeq(_)
SumSeq(s) == IF s = <<>> THEN 0 ELSE Head(s) + SumSeq(Tail(s))

\* The elements of a finite set of integers in ascending order: the iteration
\* order of a std::map keyed by Color16 (compared by its 16-bit data).
RECURSIVE SortedKeys(_)
SortedKeys(S) ==
  IF S = {} THEN <<>>
  ELSE LET lo == CHOOSE x \in S : \A y \in S : x <= y
       IN <<lo>> \o SortedKeys(S \ {lo})

\* Sum of the values of a map (a function with a finite domain).
MapSum(m) == SumSeq([i \in 1..Len(SortedKeys(DOMAIN m)) |-> m[SortedKeys(DOMAIN m)[i]]])

\* The empty map.
EmptyMap == [k \in {} |-> 0]

\* m with m[k] set to v (std::map operator[] assignment).
MapPut(m, k, v) == [x \in (DOMAIN m) \cup {k} |-> IF x = k THEN v ELSE m[x]]

\* C++ bitwise operators on naturals.
RECURSIVE BitAnd(_, _)
BitAnd(a, b) ==
  IF a = 0 \/ b = 0 THEN 0
  ELSE (a % 2) * (b % 2) + 2 * BitAnd(a \div 2, b \div 2)

RECURSIVE BitOr(_, _)
BitOr(a, b) ==
  IF a = 0 THEN b
  ELSE IF b = 0 THEN a
  ELSE Max(a % 2, b % 2) + 2 * BitOr(a \div 2, b \div 2)

RECURSIVE BitXor(_, _)
BitXor(a, b) ==
  IF a = 0 THEN b
  ELSE IF b = 0 THEN a
  ELSE ((a + b) % 2) + 2 * BitXor(a \div 2, b \div 2)

ShiftLeft(a, k) == a * Pow2(k)
ShiftRight(a, k) == a \div Pow2(k)

\* Conversion of an integer to an unsigned / signed integer type of w bits.
ToUnsigned(v, w) == v % Pow2(w)
ToSigned(v, w) ==
  LET u == v % Pow2(w) IN IF u >= Pow2(w - 1) THEN u - Pow2(w) ELSE u

-----------------------------------------------------------------------------
(* util/bitpack.h                                                          *)

\* LowBits<num_bits, T>(): the mask of the num_bits least significant bits.
LowBitsMask(num_bits) == ShiftLeft(1, num_bits) - 1

\* LowBits<num_bits>(x): x & mask.
LowBits(num_bits, x) == BitAnd(x, LowBitsMask(num_bits))

\* Unpack<T, data_bits, trailing_bits>(x) where T is int16_t (is_signed) or
\* uint16_t.  signbit is converted to T; y is the masked field converted to T;
\* the result of (y ^ signbit) - signbit is converted to T on return.
UnpackSigned(data_bits, trailing_bits, x) ==
  LET signbit == ToSigned(ShiftLeft(1, data_bits - 1), 16)
      y == ToSigned(LowBits(data_bits, ShiftRight(x, trailing_bits)), 16)
      \* two's complement xor of two 16-bit signed values, as int
      yx == ToSigned(BitXor(ToUnsigned(y, 16), ToUnsigned(signbit, 16)), 16)
  IN ToSigned(yx - signbit, 16)

UnpackUnsigned(data_bits, trailing_bits, x) ==
  ToUnsigned(LowBits(data_bits, ShiftRight(x, trailing_bits)), 16)

Unpack(is_signed, data_bits, trailing_bits, x) ==
  IF is_signed THEN UnpackSigned(data_bits, trailing_bits, x)
  ELSE UnpackUnsigned(data_bits, trailing_bits, x)

\* A uint32_t x is the pair <<low half, high half>> of its 16-bit halves.
\* The 16 low bits of x >> k, for k < 32.
ShiftRight32(x, k) ==
  IF k >= 16 THEN ShiftRight(x[2], k - 16)
  ELSE ShiftRight(x[1], k) + ShiftLeft(x[2] % Pow2(k), 16 - k)

\* The uint32_t v << k for v < 2^16 and k < 32 (bits shifted out are lost).
ShiftLeft32(v, k) ==
  IF k >= 16 THEN <<0, ShiftLeft(v, k - 16) % Pow2(16)>>
  ELSE <<ShiftLeft(v % Pow2(16 - k), k), ShiftRight(v, 16 - k)>>

\* a | b on uint32_t.
BitOr32(a, b) == <<BitOr(a[1], b[1]), BitOr(a[2], b[2])>>

\* Unpack<T, data_bits, trailing_bits>(x) for a uint32_t x and a 16-bit T:
\* LowBits<data_bits>(x >> trailing_bits) keeps no bit above the 16 low ones.
Unpack32(is_signed, data_bits, trailing_bits, x) ==
  Unpack(is_signed, data_bits, 0, ShiftRight32(x, trailing_bits))

-----------------------------------------------------------------------------
(* car.h: Color16                                                          *)

r5(c) == UnpackUnsigned(5, 0, c)
g5(c) == UnpackUnsigned(5, 5, c)
b5(c) == UnpackUnsigned(5, 10, c)
force_opaque(c) == UnpackUnsigned(1, 15, c)

\* Color16::SetRgb: r, g, b are 8-bit channel values.
SetRgb(r, g, b, force_opaque_bit) ==
  BitOr(BitOr(ShiftRight(r, 3), ShiftLeft(ShiftRight(g, 3), 5)),
        BitOr(ShiftLeft(ShiftRight(b, 3), 10),
              ShiftLeft(BitAnd(force_opaque_bit, 1), 15)))

-----------------------------------------------------------------------------
(* util/color.h                                                            *)

\* The penalty for a force-opaque mismatch.
kOpaquePenalty == 255

Sq(x) == x * x

ColorDistSq(a, b) ==
  Sq(r5(a) - r5(b)) + Sq(g5(a) - g5(b)) + Sq(b5(a) - b5(b))
    + Sq(IF force_opaque(a) # force_opaque(b) THEN kOpaquePenalty ELSE 0)

\* std::numeric_limits<float>::infinity(): above every ColorDistSq, which is
\* at most 3 * 31 * 31 + 255 * 255.
kInf == 1000000

\* kInt64Max stands above every distance as well.
kInt64Max == 1000001

\* Width of the pixel counts (uint16_t).
kCountBits == 16

\* struct Color entries of the vector 'colors': every non-transparent entry of
\* the map, in map order, with score = infinity.
QColorsVec(m) ==
  LET ks == SortedKeys({k \in DOMAIN m : k # 0})
  IN [i \in 1..Len(ks) |->
        [color |-> ks[i], num_pixels |-> m[ks[i]], score |-> kInf]]

\* transparent.num_pixels: the count of the colour with data == 0.
QTransparent(m) ==
  IF 0 \in DOMAIN m THEN ToUnsigned(m[0], kCountBits) ELSE 0

\* "Find the color with the most pixels": the loop over i = 1 .. size-1
\* (indices here are 1-based) with the comparison the code makes.
RECURSIVE QFirst(_, _, _, _)
QFirst(colors, i, c_next, c_num) ==
  IF i > Len(colors) THEN c_next
  ELSE IF colors[i].num_pixels < c_num
       THEN QFirst(colors, i + 1, i, colors[i].num_pixels)
       ELSE QFirst(colors, i + 1, c_next, c_num)

\* The inner loop of the selection: lowers every score to the distance to the
\* colour pushed last and picks the colour with the highest score.  QScoreStep
\* is the body for colour i once its new score s is known.
RECURSIVE QScore(_, _, _, _, _)
QScoreStep(colors, last, i, highest_score, c_next, s) ==
  IF s > highest_score
  THEN QScore([colors EXCEPT ![i].score = s], last, i + 1, s, i)
  ELSE QScore([colors EXCEPT ![i].score = s], last, i + 1, highest_score,
              c_next)

QScore(colors, last, i, highest_score, c_next) ==
  IF i > Len(colors) THEN [colors |-> colors, c_next |-> c_next]
  ELSE QScoreStep(colors, last, i, highest_score, c_next,
                  Min(ColorDistSq(last, colors[i].color), colors[i].score))

\* while (true) { final.push_back(colors[c_next]); if (size >= to_find) break;
\* ... }: QSelect pushes colors[c_next], QSelectPushed continues with the
\* grown vector f.
RECURSIVE QSelect(_, _, _, _)
QSelectScored(r, f, to_find) == QSelect(r.colors, f, r.c_next, to_find)

QSelectPushed(colors, f, c_next, to_find) ==
  IF Len(f) >= to_find THEN [colors |-> colors, final |-> f]
  ELSE QSelectScored(QScore(colors, f[Len(f)].color, 1, 0, c_next), f, to_find)

QSelect(colors, final, c_next, to_find) ==
  QSelectPushed(colors, Append(final, colors[c_next]), c_next, to_find)

\* Index of the nearest colour of 'final' (first one on ties); QNearestStep is
\* the body for final[i] at distance d.
RECURSIVE QNearest(_, _, _, _, _)
QNearestStep(c, final, i, i_best, d_best, d) ==
  IF d < d_best THEN QNearest(c, final, i + 1, i, d)
  ELSE QNearest(c, final, i + 1, i_best, d_best)

QNearest(c, final, i, i_best, d_best) ==
  IF i > Len(final) THEN i_best
  ELSE QNearestStep(c, final, i, i_best, d_best,
                    ColorDistSq(c, final[i].color))

\* "For colors which did not appear in the final palette": every colour whose
\* score is above 0 adds its count to the nearest final colour.
RECURSIVE QRedistribute(_, _, _)
QRedistribute(colors, final, k) ==
  IF k > Len(colors) THEN final
  ELSE IF colors[k].score > 0
       THEN QRedistribute(colors,
              [final EXCEPT
                 ![QNearest(colors[k].color, final, 1, 1, kInt64Max)]
                    .num_pixels =
                      ToUnsigned(@ + colors[k].num_pixels, kCountBits)],
              k + 1)
       ELSE QRedistribute(colors, final, k + 1)

\* The redistribution over the vectors the selection left.
QRedistributeAll(sel) == QRedistribute(sel.colors, sel.final, 1)

\* inout_colors.clear(); for (e : final) inout_colors[e.color] = e.num_pixels.
RECURSIVE QOutput(_, _, _)
QOutput(final, i, m) ==
  IF i > Len(final) THEN m
  ELSE QOutput(final, i + 1, MapPut(m, final[i].color, final[i].num_pixels))

\* if (transparent.num_pixels) final.push_back(transparent)
QPushTransparent(final, transparent) ==
  IF transparent # 0
  THEN Append(final, [color |-> 0, num_pixels |-> transparent, score |-> 0])
  ELSE final

\* The selection and the redistribution, from the vector 'colors'.
QFinal(colors, to_find) ==
  QRedistributeAll(QSelect(colors, <<>>,
                         QFirst(colors, 2, 1, colors[1].num_pixels), to_find))

\* The part of QuantizeColors after the early return.
QReduce(colors, transparent, n) ==
  QOutput(QPushTransparent(QFinal(colors, IF transparent # 0 THEN n - 1 ELSE n),
                           transparent),
          1, EmptyMap)

\* QuantizeColors for n > 0.
QuantizeColors(inout_colors, n) ==
  IF Cardinality(DOMAIN inout_colors) <= n THEN inout_colors
  ELSE QReduce(QColorsVec(inout_colors), QTransparent(inout_colors), n)

-----------------------------------------------------------------------------
(* Specification of the quantizer: a histogram over a few sample colours   *)
(* and a colour budget are drawn, and QuantizeColors is applied once.      *)

\* Largest pixel count of an input histogram entry.
MaxCount == 2
\* Largest colour budget n tried.
MaxColors == 3

\* Sample colours: transparent (0), three reds, a green, and forced-opaque
\* black (bit 15 only).
ColorSamples == {0, 1, 2, 31, 992, 32768}

Histograms == UNION {[S -> 1..MaxCount] : S \in SUBSET ColorSamples}

QuantInit ==
  /\ merge = Idle /\ codec = Idle /\ pix = Idle /\ bits = Idle
  /\ scale = Idle /\ raster = Idle
  /\ carpix = Idle /\ tool = Idle /\ faces = Idle
  /\ quant \in {[pc |-> "start", inout_colors |-> h, n |-> k, input |-> h] :
               h \in Histograms, k \in 0..MaxColors}

\* QuantizeColors(inout_colors, n) returning normally.
QuantizeColorsCall ==
  /\ quant.pc = "start"
  /\ quant.n > 0
  /\ quant' = [quant EXCEPT !.pc = "done",
                 !.inout_colors = QuantizeColors(quant.inout_colors, quant.n)]
  /\ UNCHANGED <<merge, codec, pix, bits, scale, raster,
                 carpix, tool, faces>>

\* CHECK_GT(n, 0) fails: the program exits.
QuantizeColorsCheckFails ==
  /\ quant.pc = "start"
  /\ ~(quant.n > 0)
  /\ quant' = [quant EXCEPT !.pc = "failed"]
  /\ UNCHANGED <<merge, codec, pix, bits, scale, raster,
                 carpix, tool, faces>>

\* A second QuantizeColors(inout_colors, n) on the histogram the first call
\* left, with the same n.
QuantizeAgainCall ==
  /\ quant.pc = "done"
  /\ quant' = [pc |-> "again", n |-> quant.n, input |-> quant.input,
               once |-> quant.inout_colors,
               inout_colors |-> QuantizeColors(quant.inout_colors, quant.n)]
  /\ UNCHANGED <<merge, codec, pix, bits, scale, raster,
                 carpix, tool, faces>>

QuantNext ==
  QuantizeColorsCall \/ QuantizeColorsCheckFails \/ QuantizeAgainCall

SpecQuantize == QuantInit /\ [][QuantNext]_vars

\* C2: after QuantizeColors with n >= 1 the histogram has at most n entries.
C2_AtMostMaxColors ==
  quant.pc = "done" => Cardinality(DOMAIN quant.inout_colors) <= quant.n

\* C3: QuantizeColors conserves the total pixel count: the sum of the output
\* counts equals the sum of the input counts.
C3_PixelCountConserved ==
  quant.pc = "done" => MapSum(quant.inout_colors) = MapSum(quant.input)

\* C22: QuantizeColors leaves a histogram of at most n entries as it is,
\* colours and counts, and quantizing twice with the same n gives the same
\* histogram as quantizing once.
C22_QuantizeIdempotent ==
  /\ (quant.pc = "done" /\ Cardinality(DOMAIN quant.input) <= quant.n)
       => quant.inout_colors = quant.input
  /\ quant.pc = "again" => quant.inout_colors = quant.once

\* The part of C22 that holds: a histogram of at most n entries is left as
\* it is, by the first call and by the second.
SmallHistogramKept ==
  /\ (quant.pc = "done" /\ Cardinality(DOMAIN quant.input) <= quant.n)
       => quant.inout_colors = quant.input
  /\ (quant.pc = "again" /\ Cardinality(DOMAIN quant.once) <= quant.n)
       => quant.inout_colors = quant.once

\* The non-transparent colours of the input with the highest pixel count.
MostPixels ==
  {c \in DOMAIN quant.input \ {0} :
     \A d \in DOMAIN quant.input \ {0} : quant.input[d] <= quant.input[c]}

\* C23: when the histogram has more than n entries, the non-transparent
\* colour with the highest pixel count is among the colours QuantizeColors
\* leaves (where several colours share the highest count, one of them).
C23_SeedHasMostPixels ==
  (quant.pc = "done" /\ Cardinality(DOMAIN quant.input) > quant.n)
    => \E c \in MostPixels : c \in DOMAIN quant.inout_colors

-----------------------------------------------------------------------------
(* util/color.h: ComputePaletteDist; car_from_obj.h: MergePalettes         *)

\* Distance of colour c to the nearest colour of the vector vb.
RECURSIVE NearestDistSq(_, _, _, _)
NearestDistSq(c, vb, j, sq_dist) ==
  IF j > Len(vb) THEN sq_dist
  ELSE NearestDistSq(c, vb, j + 1, Min(sq_dist, ColorDistSq(c, vb[j])))

\* A tally that counts every colour of va into union_size.
PaletteDistStepAll(out, sq_dist) ==
  [sum_sq_dist |-> out.sum_sq_dist + sq_dist,
   union_size |-> out.union_size + 1]

\* out after the colour of va at distance sq_dist from vb.
PaletteDistStep(out, sq_dist) ==
  [sum_sq_dist |-> out.sum_sq_dist + sq_dist,
   union_size |-> IF sq_dist > 0 THEN out.union_size + 1 ELSE out.union_size]

RECURSIVE PaletteDistLoop(_, _, _, _)
PaletteDistLoop(va, vb, i, out) ==
  IF i > Len(va) THEN out
  ELSE PaletteDistLoop(va, vb, i + 1,
         PaletteDistStep(out, NearestDistSq(va[i], vb, 1, kInt64Max)))

\* The loops of ComputePaletteDist, va being the smaller palette.
PaletteDistFrom(va, vb) ==
  PaletteDistLoop(va, vb, 1, [sum_sq_dist |-> 0, union_size |-> Len(vb)])

\* ComputePaletteDist(a, b) on two colour -> count maps.
ComputePaletteDist(a, b) ==
  IF Cardinality(DOMAIN a) > Cardinality(DOMAIN b)
  THEN PaletteDistFrom(SortedKeys(DOMAIN b), SortedKeys(DOMAIN a))
  ELSE PaletteDistFrom(SortedKeys(DOMAIN a), SortedKeys(DOMAIN b))

\* for (kv : b.colors) a.colors[kv.first] += kv.second
RECURSIVE AddColors(_, _, _)
AddColors(ac, bc, ks) ==
  IF ks = <<>> THEN ac
  ELSE LET k == Head(ks)
           old == IF k \in DOMAIN ac THEN ac[k] ELSE 0
       IN AddColors(MapPut(ac, k, ToUnsigned(old + bc[k], kCountBits)), bc,
                    Tail(ks))

\* A union that merges the colours of b into a and not its faces.
PaletteDataUnionColors(a, b) ==
  [colors |-> AddColors(a.colors, b.colors, SortedKeys(DOMAIN b.colors)),
   face_index |-> a.face_index]

\* PaletteDataUnion(a, b): the new value of a.
PaletteDataUnion(a, b) ==
  [colors |-> AddColors(a.colors, b.colors, SortedKeys(DOMAIN b.colors)),
   face_index |-> a.face_index \cup b.face_index]

\* std::sort with a comparator "key(a) > key(b)", where keys[i] is the key of
\* ps[i].  The order it gives to elements with equal keys is unspecified:
\* tie[i] ranks the element at position i among its equals, so that every
\* permutation tie yields one of the results std::sort may give, and every
\* such result comes from some tie.
RECURSIVE SortPick(_, _, _, _)
SortPick(ps, keys, tie, left) ==
  IF left = {} THEN <<>>
  ELSE LET first == CHOOSE i \in left : \A j \in left :
                      \/ keys[i] > keys[j]
                      \/ keys[i] = keys[j] /\ tie[i] <= tie[j]
       IN <<ps[first]>> \o SortPick(ps, keys, tie, left \ {first})

\* The rankings of n positions.
TieBreaks(n) ==
  {p \in [1..n -> 1..n] : \A i, j \in 1..n : i # j => p[i] # p[j]}

NumFaces(p) == Cardinality(p.face_index)
NumColors(p) == Cardinality(DOMAIN p.colors)

\* while (!palettes.empty() && palettes.back().face_index.empty()) pop_back()
RECURSIVE DropFaceless(_)
DropFaceless(ps) ==
  IF ps # <<>> /\ ps[Len(ps)].face_index = {}
  THEN DropFaceless(SubSeq(ps, 1, Len(ps) - 1))
  ELSE ps

\* std::swap(source, palettes.back()); palettes.pop_back() with source at j.
SwapPop(ps, j) ==
  SubSeq([ps EXCEPT ![j] = ps[Len(ps)]], 1, Len(ps) - 1)

\* One of the two merge loops over (i, j): 'exact' merges on sum_sq_dist == 0,
\* otherwise on union_size <= max_colors.  ok is FALSE when the CHECK_LE on the
\* merged size fails.  MergeInto is the body of the if with the union 'target'
\* of palettes i and j, MergePair the body of the inner loop with the distance
\* 'dist' of the two.
RECURSIVE MergeLoop(_, _, _, _, _)
MergeInto(ps, i, j, max_colors, exact, target) ==
  IF NumColors(target) <= max_colors
  THEN MergeLoop(SwapPop([ps EXCEPT ![i] = target], j), i, j, max_colors,
                 exact)
  ELSE [ok |-> FALSE, palettes |-> ps]

MergePair(ps, i, j, max_colors, exact, dist) ==
  IF (IF exact THEN dist.sum_sq_dist = 0 ELSE dist.union_size <= max_colors)
  THEN MergeInto(ps, i, j, max_colors, exact, PaletteDataUnion(ps[i], ps[j]))
  ELSE MergeLoop(ps, i, j + 1, max_colors, exact)

MergeLoop(ps, i, j, max_colors, exact) ==
  IF i > Len(ps) THEN [ok |-> TRUE, palettes |-> ps]
  ELSE IF j > Len(ps) THEN MergeLoop(ps, i + 1, i + 2, max_colors, exact)
  ELSE MergePair(ps, i, j, max_colors, exact,
                 ComputePaletteDist(ps[i].colors, ps[j].colors))

\* Index of the best target for the palette at i (first one on ties);
\* BestTargetStep is the body for target j at distance dist.
RECURSIVE BestTarget(_, _, _, _, _)
BestTargetStep(ps, i, j, j_best, dist_best, dist) ==
  IF dist.sum_sq_dist < dist_best
  THEN BestTarget(ps, i, j + 1, j, dist.sum_sq_dist)
  ELSE BestTarget(ps, i, j + 1, j_best, dist_best)

BestTarget(ps, i, j, j_best, dist_best) ==
  IF j >= i THEN j_best
  ELSE BestTargetStep(ps, i, j, j_best, dist_best,
                      ComputePaletteDist(ps[j].colors, ps[i].colors))

\* QuantizeColors(p.colors, max_colors) on palette p.
QuantizePalette(p, max_colors) ==
  [colors |-> QuantizeColors(p.colors, max_colors),
   face_index |-> p.face_index]

\* "Destructive: quantize colors until 'max_palettes' is satisfied": the loop
\* for (i = size - 1; i >= max_palettes; --i), for max_palettes >= 1.
\* FoldInto is the body for the last palette and its best target.
RECURSIVE FoldLoop(_, _, _)
FoldInto(ps, j_best, max_palettes, max_colors) ==
  FoldLoop(SubSeq([ps EXCEPT ![j_best] =
                     QuantizePalette(PaletteDataUnion(@, ps[Len(ps)]),
                                     max_colors)],
                  1, Len(ps) - 1),
           max_palettes, max_colors)

FoldLoop(ps, max_palettes, max_colors) ==
  IF Len(ps) <= max_palettes THEN ps
  ELSE FoldInto(ps, BestTarget(ps, Len(ps), 1, 1, kInt64Max), max_palettes,
                max_colors)

\* std::sort by a.face_index.size() > b.face_index.size().
SortByFaces(ps, tie) ==
  SortPick(ps, [i \in 1..Len(ps) |-> NumFaces(ps[i])], tie, 1..Len(ps))

\* std::sort by a.colors.size() > b.colors.size().
SortByColors(ps, tie) ==
  SortPick(ps, [i \in 1..Len(ps) |-> NumColors(ps[i])], tie, 1..Len(ps))

\* for (auto& p : palettes) QuantizeColors(p.colors, max_colors)
QuantizeAll(ps, max_colors) ==
  [i \in 1..Len(ps) |-> QuantizePalette(ps[i], max_colors)]

\* The second merge loop and what follows it, r being the outcome of the
\* first merge loop.
MergeFit(r, max_colors) ==
  IF r.ok THEN MergeLoop(r.palettes, 1, 2, max_colors, FALSE) ELSE r

\* The last sort and the destructive loop, r being the outcome of the merge
\* loops.
MergeFold(r, max_palettes, max_colors, tie3) ==
  IF r.ok
  THEN [ok |-> TRUE,
        palettes |-> FoldLoop(SortByColors(r.palettes, tie3), max_palettes,
                              max_colors)]
  ELSE r

\* MergePalettes for max_palettes >= 1 and max_colors >= 1, with the rankings
\* tie1, tie2, tie3 deciding the three calls of std::sort.  ok is FALSE when a
\* CHECK_LE fails.
MergePalettes(palettes, max_palettes, max_colors, tie1, tie2, tie3) ==
  MergeFold(
    MergeFit(
      MergeLoop(
        SortByColors(
          QuantizeAll(DropFaceless(SortByFaces(palettes, tie1)), max_colors),
          tie2),
        1, 2, max_colors, TRUE),
      max_colors),
    max_palettes, max_colors, tie3)

-----------------------------------------------------------------------------
(* Specification of the merger: a list of per-face palettes and the two    *)
(* budgets are drawn, and MergePalettes is applied once.                   *)

\* Largest number of input palettes.
MaxInPalettes == 2
\* Largest max_palettes tried.
MaxPalettes == 2
\* Largest max_colors tried.
MaxMergeColors == 2

\* Colours of the input palettes: transparent and two reds.
MergeColorSamples == {0, 1, 31}

\* Palette k is owned by face k - 1, or by no face.
PaletteInputs ==
  UNION {{ps \in [1..N -> [colors : UNION {[S -> {1}] : S \in SUBSET MergeColorSamples},
                          face_index : SUBSET (0..(N - 1))]] :
            \A k \in 1..N : ps[k].face_index \subseteq {k - 1}} :
         N \in 0..MaxInPalettes}

MergeInit ==
  /\ quant = Idle /\ codec = Idle /\ pix = Idle /\ bits = Idle
  /\ scale = Idle /\ raster = Idle
  /\ carpix = Idle /\ tool = Idle /\ faces = Idle
  /\ merge \in {[pc |-> "start", palettes |-> ps, max_palettes |-> mp,
              max_colors |-> mc, input |-> ps] :
               ps \in PaletteInputs, mp \in 1..MaxPalettes,
               mc \in 1..MaxMergeColors}

\* The outcome r of MergePalettes is stored.
MergeReturn(r) ==
  /\ r.ok
  /\ merge' = [merge EXCEPT !.pc = "done", !.palettes = r.palettes]

\* The outcome r is a failed CHECK.
MergeExit(r) ==
  /\ ~r.ok
  /\ merge' = [merge EXCEPT !.pc = "failed"]

\* MergePalettes(palettes, max_palettes, max_colors) returning normally.
MergePalettesCall ==
  /\ merge.pc = "start"
  /\ \E tie1, tie2, tie3 \in TieBreaks(Len(merge.palettes)) :
       MergeReturn(MergePalettes(merge.palettes, merge.max_palettes,
                                 merge.max_colors, tie1, tie2, tie3))
  /\ UNCHANGED <<quant, codec, pix, bits, scale, raster,
                 carpix, tool, faces>>

\* A CHECK_LE(target.colors.size(), max_colors) fails: the program exits.
MergePalettesCheckFails ==
  /\ merge.pc = "start"
  /\ \E tie1, tie2, tie3 \in TieBreaks(Len(merge.palettes)) :
       MergeExit(MergePalettes(merge.palettes, merge.max_palettes,
                               merge.max_colors, tie1, tie2, tie3))
  /\ UNCHANGED <<quant, codec, pix, bits, scale, raster,
                 carpix, tool, faces>>

MergeNext == MergePalettesCall \/ MergePalettesCheckFails

SpecMerge == MergeInit /\ [][MergeNext]_vars

\* C4: after MergePalettes with max_palettes >= 1 at most max_palettes
\* palettes remain and each has at most max_colors colours.
C4_MergeBudget ==
  merge.pc = "done" =>
    /\ Len(merge.palettes) <= merge.max_palettes
    /\ \A k \in 1..Len(merge.palettes) :
         NumColors(merge.palettes[k]) <= merge.max_colors

\* The faces of the palettes ps.
FacesOf(ps) == UNION {ps[k].face_index : k \in 1..Len(ps)}

\* C26: MergePalettes neither loses nor duplicates a face: for input
\* palettes with pairwise disjoint face sets, the face sets of the output
\* palettes are pairwise disjoint, their union is the union of the input
\* face sets, and no output palette has an empty face set.
C26_FacesKept ==
  merge.pc = "done" =>
    /\ \A j, k \in 1..Len(merge.palettes) :
         j # k => merge.palettes[j].face_index
                    \cap merge.palettes[k].face_index = {}
    /\ FacesOf(merge.palettes) = FacesOf(merge.input)
    /\ \A k \in 1..Len(merge.palettes) :
         merge.palettes[k].face_index # {}

\* Two palettes of one face each and of different colours were merged into
\* one palette that has both faces.
C26_Witness ==
  /\ merge.pc = "done"
  /\ Len(merge.input) = 2
  /\ merge.input[1].face_index = {0} /\ merge.input[2].face_index = {1}
  /\ DOMAIN merge.input[1].colors = {1}
  /\ DOMAIN merge.input[2].colors = {0, 31}
  /\ Len(merge.palettes) = 1
  /\ merge.palettes[1].face_index = {0, 1}

\* A palette without faces was dropped and the other palette kept.
FacelessDropped ==
  /\ merge.pc = "done"
  /\ Len(merge.input) = 2
  /\ merge.input[1].face_index = {} /\ merge.input[2].face_index = {1}
  /\ Len(merge.palettes) = 1
  /\ merge.palettes[1].face_index = {1}

-----------------------------------------------------------------------------
(* util/io.h: StringInStream, VecOutStream; car.h: Normal32, Model,        *)
(* CarObject.  A file is a sequence of bytes; a struct that the code       *)
(* copies in and out whole is kept as its bytes, and a field the code      *)
(* reads as an integer is decoded from its little-endian bytes.            *)

\* The uint16_t stored at offset pos of s.
U16(s, pos) == s[pos + 1] + 256 * s[pos + 2]

\* The uint32_t stored at offset pos of s, as <<low half, high half>>.
U32(s, pos) == <<U16(s, pos), U16(s, pos + 2)>>

\* Read<uint16_t>(n) at offset pos.
ReadInts(s, pos, n) == [i \in 1..n |-> U16(s, pos + 2 * (i - 1))]

\* Write(std::vector<uint16_t>).
WriteInts(v) ==
  [k \in 1..(2 * Len(v)) |->
     IF k % 2 = 1 THEN v[(k + 1) \div 2] % 256 ELSE v[k \div 2] \div 256]

\* Read<T>(n) at offset pos for a struct T of 'size' bytes.
ReadVec(s, pos, n, size) ==
  [i \in 1..n |-> SubSeq(s, pos + (i - 1) * size + 1, pos + i * size)]

\* Write(std::vector<T>) for a struct T of 'size' bytes.
WriteVec(v, size) ==
  [k \in 1..(Len(v) * size) |-> v[((k - 1) \div size) + 1][((k - 1) % size) + 1]]

\* IsZero over the bytes of s.
IsZero(s) == \A i \in 1..Len(s) : s[i] = 0

\* sizeof of the structs of a cdo/cno file.
kCarHeaderSize == 64
kModelHeaderSize == 80
kVertSize == 8
kNormalSize == 4
kFaceSize == 16
kTexFaceSize == 28
kShadowHeaderSize == 28
kShadowVertSize == 4
kShadowFaceSize == 4
\* The zero block after the header, in bytes, and the words of unknown1.
kPaddingSize == 2088
kNumUnknown1 == 13

\* Normal32::x, y, z on the bytes n of a Normal32.
Normal32_x(n) == Unpack32(TRUE, 10, 2, U32(n, 0))
Normal32_y(n) == Unpack32(TRUE, 10, 12, U32(n, 0))
Normal32_z(n) == Unpack32(TRUE, 10, 22, U32(n, 0))

\* Normal32::set: the new data.  x, y, z are int16_t, m is uint16_t.
Normal32_set(x, y, z) ==
  BitOr32(BitOr32(ShiftLeft32(BitAnd(ToUnsigned(x, 16), LowBitsMask(10)), 2),
                  ShiftLeft32(BitAnd(ToUnsigned(y, 16), LowBitsMask(10)), 12)),
          ShiftLeft32(BitAnd(ToUnsigned(z, 16), LowBitsMask(10)), 22))

\* 0.995 <= l && l <= 1.0 for l = sqrt(len_sq) / 500.  The code computes l in
\* single precision; for every triple of 10-bit components the rounded l
\* passes the two comparisons exactly when the exact l does.
LenfInRange(len_sq) == 995 * 995 <= 4 * len_sq /\ len_sq <= 500 * 500

\* A Validate that checks l <= 1.0 only.
ValidateUpperOnly(n) ==
  Sq(Normal32_x(n)) + Sq(Normal32_y(n)) + Sq(Normal32_z(n)) <= 500 * 500

\* Normal32::Validate on the bytes n of a Normal32.
Normal32_Validate(n) ==
  LenfInRange(Sq(Normal32_x(n)) + Sq(Normal32_y(n)) + Sq(Normal32_z(n)))

\* What a failed CHECK leaves: the program exits.
CheckFails(why) == [ok |-> FALSE, why |-> why]

\* Model::FromStream after the header: p1 is the offset after the header.
\* The result of a failed normal check names the index i and the word n.
ModelBody(s, p1, header) ==
  LET num_verts == U16(header, 0)
      num_normals == U16(header, 2)
      num_tris == U16(header, 4)
      num_quads == U16(header, 6)
      num_tex_tris == U16(header, 12)
      num_tex_quads == U16(header, 14)
      p2 == p1 + kVertSize * num_verts
      p3 == p2 + kNormalSize * num_normals
      p4 == p3 + kFaceSize * num_tris
      p5 == p4 + kFaceSize * num_quads
      p6 == p5 + kTexFaceSize * num_tex_tris
      p7 == p6 + kTexFaceSize * num_tex_quads
      normals == ReadVec(s, p2, num_normals, kNormalSize)
      bad == {i \in 0..(num_normals - 1) : ~Normal32_Validate(normals[i + 1])}
  IN IF kVertSize * num_verts > Len(s) - p1 THEN CheckFails("read")
     ELSE IF kNormalSize * num_normals > Len(s) - p2 THEN CheckFails("read")
     ELSE IF bad # {}
          THEN [ok |-> FALSE, why |-> "normal",
                i |-> CHOOSE i \in bad : \A j \in bad : i <= j,
                n |-> normals[(CHOOSE i \in bad : \A j \in bad : i <= j) + 1]]
     ELSE IF kFaceSize * num_tris > Len(s) - p3 THEN CheckFails("read")
     ELSE IF kFaceSize * num_quads > Len(s) - p4 THEN CheckFails("read")
     ELSE IF kTexFaceSize * num_tex_tris > Len(s) - p5 THEN CheckFails("read")
     ELSE IF kTexFaceSize * num_tex_quads > Len(s) - p6 THEN CheckFails("read")
     ELSE [ok |-> TRUE, pos |-> p7,
           model |-> [header |-> header,
                      verts |-> ReadVec(s, p1, num_verts, kVertSize),
                      normals |-> normals,
                      tris |-> ReadVec(s, p3, num_tris, kFaceSize),
                      quads |-> ReadVec(s, p4, num_quads, kFaceSize),
                      tex_tris |-> ReadVec(s, p5, num_tex_tris, kTexFaceSize),
                      tex_quads |-> ReadVec(s, p6, num_tex_quads,
                                            kTexFaceSize)]]

\* Model::FromStream at offset pos.
ModelFromStream(s, pos) ==
  IF kModelHeaderSize > Len(s) - pos THEN CheckFails("read")
  ELSE ModelBody(s, pos + kModelHeaderSize,
                 SubSeq(s, pos + 1, pos + kModelHeaderSize))

\* A Serialize that writes the quads before the tris.
SerializeQuadsFirst(m) ==
  m.header \o WriteVec(m.verts, kVertSize) \o WriteVec(m.normals, kNormalSize)
    \o WriteVec(m.quads, kFaceSize) \o WriteVec(m.tris, kFaceSize)
    \o WriteVec(m.tex_tris, kTexFaceSize) \o WriteVec(m.tex_quads, kTexFaceSize)

\* Model::Serialize.
ModelSerialize(m) ==
  m.header \o WriteVec(m.verts, kVertSize) \o WriteVec(m.normals, kNormalSize)
    \o WriteVec(m.tris, kFaceSize) \o WriteVec(m.quads, kFaceSize)
    \o WriteVec(m.tex_tris, kTexFaceSize) \o WriteVec(m.tex_quads, kTexFaceSize)

\* CarObject::Shadow::FromStream after the header.
ShadowBody(s, p1, header) ==
  LET num_verts == U16(header, 0)
      num_tris == U16(header, 2)
      num_quads == U16(header, 4)
      p2 == p1 + kShadowVertSize * num_verts
      p3 == p2 + kShadowFaceSize * num_tris
      p4 == p3 + kShadowFaceSize * num_quads
  IN IF kShadowVertSize * num_verts > Len(s) - p1 THEN CheckFails("read")
     ELSE IF kShadowFaceSize * num_tris > Len(s) - p2 THEN CheckFails("read")
     ELSE IF kShadowFaceSize * num_quads > Len(s) - p3 THEN CheckFails("read")
     ELSE [ok |-> TRUE, pos |-> p4,
           shadow |-> [header |-> header,
                       verts |-> ReadVec(s, p1, num_verts, kShadowVertSize),
                       tris |-> ReadVec(s, p2, num_tris, kShadowFaceSize),
                       quads |-> ReadVec(s, p3, num_quads, kShadowFaceSize)]]

\* CarObject::Shadow::FromStream at offset pos.
ShadowFromStream(s, pos) ==
  IF kShadowHeaderSize > Len(s) - pos THEN CheckFails("read")
  ELSE ShadowBody(s, pos + kShadowHeaderSize,
                  SubSeq(s, pos + 1, pos + kShadowHeaderSize))

\* CarObject::Shadow::Serialize.
ShadowSerialize(sh) ==
  sh.header \o WriteVec(sh.verts, kShadowVertSize)
    \o WriteVec(sh.tris, kShadowFaceSize)
    \o WriteVec(sh.quads, kShadowFaceSize)

\* for (i < num_lods) lods.push_back(Model::FromStream(s)): n models are
\* still to be read at offset pos; LodsPush takes the outcome r of one read.
RECURSIVE LodsFromStream(_, _, _, _)
LodsPush(s, n, lods, r) ==
  IF r.ok THEN LodsFromStream(s, r.pos, n - 1, Append(lods, r.model)) ELSE r

LodsFromStream(s, pos, n, lods) ==
  IF n = 0 THEN [ok |-> TRUE, pos |-> pos, lods |-> lods]
  ELSE LodsPush(s, n, lods, ModelFromStream(s, pos))

\* A Validate that compares only "GT\2" and the padding.
ValidateThreeChars(header) ==
  SubSeq(header, 1, 3) = <<71, 84, 2>> /\ IsZero(SubSeq(header, 5, 24))

\* CarObject::Header::Validate: magic is "GT\2\0" and padding is zero.
HeaderValidate(header) ==
  SubSeq(header, 1, 4) = <<71, 84, 2, 0>> /\ IsZero(SubSeq(header, 5, 24))

\* The end of CarObject::FromStream: sh is the outcome of Shadow::FromStream.
CarObjectEnd(s, lods, sh) ==
  IF ~sh.ok THEN sh
  ELSE IF Len(s) - sh.pos # 0 THEN CheckFails("remain")
  ELSE [ok |-> TRUE,
        car |-> [header |-> SubSeq(s, 1, kCarHeaderSize),
                 padding |-> ReadInts(s, kCarHeaderSize, kPaddingSize \div 2),
                 num_lods |-> U16(s, kCarHeaderSize + kPaddingSize),
                 unknown1 |-> ReadInts(s, kCarHeaderSize + kPaddingSize + 2,
                                       kNumUnknown1),
                 lods |-> lods,
                 shadow |-> sh.shadow]]

\* CarObject::FromStream from the shadow on: r is the outcome of the loop
\* over the LODs.
CarObjectShadow(s, r) ==
  IF r.ok THEN CarObjectEnd(s, r.lods, ShadowFromStream(s, r.pos)) ELSE r

\* CarObject::FromStream on the file s.
CarObjectFromStream(s) ==
  IF kCarHeaderSize > Len(s) THEN CheckFails("read")
  ELSE IF ~HeaderValidate(SubSeq(s, 1, kCarHeaderSize))
       THEN CheckFails("header")
  ELSE IF kPaddingSize > Len(s) - kCarHeaderSize THEN CheckFails("read")
  ELSE IF ~IsZero(SubSeq(s, kCarHeaderSize + 1, kCarHeaderSize + kPaddingSize))
       THEN CheckFails("padding")
  ELSE IF 2 + 2 * kNumUnknown1 > Len(s) - (kCarHeaderSize + kPaddingSize)
       THEN CheckFails("read")
  ELSE CarObjectShadow(s,
         LodsFromStream(s, kCarHeaderSize + kPaddingSize + 2 + 2 * kNumUnknown1,
                        U16(s, kCarHeaderSize + kPaddingSize), <<>>))

\* for (m : lods) m.Serialize(out)
RECURSIVE LodsSerialize(_)
LodsSerialize(lods) ==
  IF lods = <<>> THEN <<>>
  ELSE ModelSerialize(Head(lods)) \o LodsSerialize(Tail(lods))

\* CarObject::Serialize.
CarObjectSerialize(car) ==
  car.header \o WriteInts(car.padding) \o WriteInts(<<car.num_lods>>)
    \o WriteInts(car.unknown1) \o LodsSerialize(car.lods)
    \o ShadowSerialize(car.shadow)

-----------------------------------------------------------------------------
(* Specification of the cdo/cno codec: a file is drawn, CarObject::        *)
(* FromStream decodes it, and CarObject::Serialize writes the decoded      *)
(* object.  The files are well-formed files over a few shapes, with one    *)
(* normal replaced by a sample, and with one corruption applied.           *)

\* Largest number of LODs of a file.
MaxLods == 1
\* Largest count of a section of a model or of the shadow.
MaxElems == 2

\* n bytes of value b.
Fill(n, b) == [i \in 1..n |-> b]

\* n structs of 'size' bytes, struct i filled with the byte tag + i.
Structs(n, size, tag) == [k \in 1..(n * size) |-> tag + ((k - 1) \div size) + 1]

Sections == {"verts", "normals", "tris", "quads", "tex_tris", "tex_quads"}

\* Counts of the sections of a model: all sections, or one, hold k structs.
ModelShapes ==
  {[sec \in Sections |-> IF sec \in S THEN k ELSE 0] :
     k \in 0..MaxElems, S \in {Sections} \cup {{sec} : sec \in Sections}}

\* A normal of length 1, and the samples: lengths 1, 0.998, 0.996 (in range,
\* some components negative) and 0.5, 0.994, 1.0002, 1.024, 0.
GoodNormal == <<500, 0, 0>>
NormalSamples ==
  {<<-300, 400, 0>>, <<0, -499, 0>>, <<0, 0, 498>>, <<250, 0, 0>>,
   <<497, 0, 0>>, <<500, 10, 0>>, <<-512, 0, 0>>, <<0, 0, 0>>}

\* The normals of a model with n normals: at most one is a sample.
NormalLists(n) ==
  {[i \in 1..n |-> IF i = j THEN t ELSE GoodNormal] :
     j \in 0..n, t \in NormalSamples}

\* The halves of the data of the normals ns[i], ns[i + 1], ...
RECURSIVE NormalWords(_, _)
NormalWords(ns, i) ==
  IF i > Len(ns) THEN <<>>
  ELSE Normal32_set(ns[i][1], ns[i][2], ns[i][3]) \o NormalWords(ns, i + 1)

\* The bytes of a model with the counts c and the normals ns.
ModelBytes(c, ns, lod) ==
  WriteInts(<<c.verts, c.normals, c.tris, c.quads, lod, 0, c.tex_tris,
              c.tex_quads>>)
    \o Fill(44, 100 + lod) \o Fill(16, 3) \o <<16, 0, 7, 9>>
    \o Structs(c.verts, kVertSize, 10)
    \o WriteInts(NormalWords(ns, 1))
    \o Structs(c.tris, kFaceSize, 20) \o Structs(c.quads, kFaceSize, 30)
    \o Structs(c.tex_tris, kTexFaceSize, 40)
    \o Structs(c.tex_quads, kTexFaceSize, 50)

RECURSIVE LodsBytes(_, _, _)
LodsBytes(n, c, ns) ==
  IF n = 0 THEN <<>> ELSE LodsBytes(n - 1, c, ns) \o ModelBytes(c, ns, n)

\* The bytes of a shadow with k vertices, k triangles and k quads.
ShadowBytes(k) ==
  WriteInts(<<k, k, k, 5>>) \o Fill(16, 4) \o <<16, 0, 1, 2>>
    \o Structs(k, kShadowVertSize, 60) \o Structs(k, kShadowFaceSize, 70)
    \o Structs(k, kShadowFaceSize, 80)

\* A well-formed file: n LODs of the counts c and normals ns, shadow of k.
CarBytes(n, c, ns, k) ==
  <<71, 84, 2, 0>> \o Fill(20, 0) \o Fill(40, 6) \o Fill(kPaddingSize, 0)
    \o WriteInts(<<n>>) \o Structs(kNumUnknown1, 2, 200)
    \o LodsBytes(n, c, ns) \o ShadowBytes(k)

Corruptions ==
  {"none", "magic", "magic_nul", "header_padding", "padding_first",
   "padding_last", "num_lods", "truncate", "extend"}

\* The file s with one corruption.
Corrupt(s, kind) ==
  CASE kind = "none" -> s
    [] kind = "magic" -> [s EXCEPT ![1] = 103]
    [] kind = "magic_nul" -> [s EXCEPT ![4] = 1]
    [] kind = "header_padding" -> [s EXCEPT ![24] = 1]
    [] kind = "padding_first" -> [s EXCEPT ![kCarHeaderSize + 1] = 128]
    [] kind = "padding_last" -> [s EXCEPT ![kCarHeaderSize + kPaddingSize] = 1]
    [] kind = "num_lods" -> [s EXCEPT ![kCarHeaderSize + kPaddingSize + 1] = @ + 1]
    [] kind = "truncate" -> SubSeq(s, 1, Len(s) - 1)
    [] kind = "extend" -> Append(s, 0)

CodecInputs ==
  UNION {{Corrupt(CarBytes(n, c, ns, k), kind) :
            n \in 0..MaxLods,
            ns \in NormalLists(c.normals),
            k \in 0..MaxElems,
            kind \in Corruptions} :
         c \in ModelShapes}

CodecInit ==
  /\ quant = Idle /\ merge = Idle /\ pix = Idle /\ bits = Idle
  /\ scale = Idle /\ raster = Idle
  /\ carpix = Idle /\ tool = Idle /\ faces = Idle
  /\ codec \in {[pc |-> "start", bytes |-> s] : s \in CodecInputs}

\* The outcome r of CarObject::FromStream is kept: the object, or the CHECK
\* that failed.
CodecOutcome(r) ==
  codec' = IF r.ok
           THEN [pc |-> "decoded", bytes |-> codec.bytes, car |-> r.car]
           ELSE [pc |-> "failed", bytes |-> codec.bytes, why |-> r]

\* CarObject::FromStream(s) on the file.
CarObjectFromStreamCall ==
  /\ codec.pc = "start"
  /\ CodecOutcome(CarObjectFromStream(codec.bytes))
  /\ UNCHANGED <<quant, merge, pix, bits, scale, raster,
                 carpix, tool, faces>>

\* CarObject::Serialize(out) on the decoded object.
CarObjectSerializeCall ==
  /\ codec.pc = "decoded"
  /\ codec' = [pc |-> "serialized", bytes |-> codec.bytes, car |-> codec.car,
               out |-> CarObjectSerialize(codec.car)]
  /\ UNCHANGED <<quant, merge, pix, bits, scale, raster,
                 carpix, tool, faces>>

CodecNext == CarObjectFromStreamCall \/ CarObjectSerializeCall

SpecCodec == CodecInit /\ [][CodecNext]_vars

\* C1: CarObject::Serialize of an object that CarObject::FromStream decoded
\* writes exactly the bytes of the file it was decoded from.
C1_RoundTrip == codec.pc = "serialized" => codec.out = codec.bytes

\* A file with one LOD whose sections hold two structs each, and a shadow with
\* faces, was decoded and serialized.
C1_Witness ==
  /\ codec.pc = "serialized"
  /\ codec.car.num_lods = 1
  /\ Len(codec.car.lods[1].verts) = 2
  /\ Len(codec.car.lods[1].normals) = 2
  /\ Len(codec.car.lods[1].tris) = 2
  /\ Len(codec.car.lods[1].quads) = 2
  /\ Len(codec.car.lods[1].tex_tris) = 2
  /\ Len(codec.car.lods[1].tex_quads) = 2
  /\ Len(codec.car.shadow.quads) = 1

\* A signed 10-bit component from its 10 bits.
Signed10(v) == IF v >= 512 THEN v - 1024 ELSE v

\* Squared length, in units of 1/500, of the normal stored in the 4 bytes n:
\* x is bits 2..11, y bits 12..21 and z bits 22..31 of the little-endian word.
NormalLenSq(n) ==
  Sq(Signed10(((n[1] + 256 * n[2]) \div 4) % 1024))
    + Sq(Signed10(((n[2] \div 16) + 16 * n[3] + 4096 * n[4]) % 1024))
    + Sq(Signed10((n[3] \div 64) + 4 * n[4]))

\* length in [0.995, 1.0], length being sqrt(len_sq) / 500.
UnitLength(len_sq) == 995 * 995 <= 4 * len_sq /\ 4 * len_sq <= 1000 * 1000

\* C5: no object is returned when a normal of one of its models has a length
\* outside [0.995, 1.0], and the normal check fails only on such a normal.
C5_NormalCheck ==
  /\ codec.pc \in {"decoded", "serialized"} =>
       \A l \in 1..Len(codec.car.lods) :
         \A i \in 1..Len(codec.car.lods[l].normals) :
           UnitLength(NormalLenSq(codec.car.lods[l].normals[i]))
  /\ (codec.pc = "failed" /\ codec.why.why = "normal") =>
       ~UnitLength(NormalLenSq(codec.why.n))

\* The decode failed on the second normal of a model, a normal of length 0.5.
C5_Witness ==
  /\ codec.pc = "failed"
  /\ codec.why.why = "normal"
  /\ codec.why.i = 1
  /\ NormalLenSq(codec.why.n) = 250 * 250

-----------------------------------------------------------------------------
(* car.h: CarPix::Pixels; car_from_obj.h: PackCarPixData.  The texture is  *)
(* 2 * HalfWidth pixels wide and PixRows high instead of 256 by 256.       *)

\* Half the width of the texture, and its height.
HalfWidth == 1
PixRows == 2

\* A Pixels that keeps the indices: each nibble in the 4 low bits of a pixel.
PixelsLowBits(data) ==
  [k \in 1..(2 * Len(data)) |->
     IF k % 2 = 1 THEN BitAnd(data[(k + 1) \div 2], 15)
     ELSE ShiftRight(data[k \div 2], 4)]

\* CarPix::Pixels: the pixels of the image, two for each byte of data.
Pixels(data) ==
  [k \in 1..(2 * Len(data)) |->
     IF k % 2 = 1
     THEN ToUnsigned(BitAnd(ShiftLeft(data[(k + 1) \div 2], 4), 240), 8)
     ELSE ToUnsigned(BitAnd(data[k \div 2], 240), 8)]

\* PackCarPixData after its CHECKs: the new cdp.data, one uint8_t for each
\* pair of pixels.
PackCarPixData(pixels) ==
  [k \in 1..(Len(pixels) \div 2) |->
     ToUnsigned(BitOr(ShiftLeft(pixels[2 * k], 4), pixels[2 * k - 1]), 8)]

\* cdp.data of n bytes: the bytes b, b + step, b + 2 * step, ...
PixInputs ==
  {[i \in 1..n |-> (b + (i - 1) * step) % 256] :
     n \in {HalfWidth * PixRows, HalfWidth * PixRows - 1},
     b \in 0..255, step \in {0, 1, 16, 77}}

PixInit ==
  /\ quant = Idle /\ merge = Idle /\ codec = Idle /\ bits = Idle
  /\ scale = Idle /\ raster = Idle
  /\ carpix = Idle /\ tool = Idle /\ faces = Idle
  /\ pix \in {[pc |-> "start", data |-> d, input |-> d] : d \in PixInputs}

\* index = cdp.Pixels()
CarPixPixelsCall ==
  /\ pix.pc = "start"
  /\ pix' = [pc |-> "unpacked", data |-> pix.data, input |-> pix.input,
             pixels |-> Pixels(pix.data)]
  /\ UNCHANGED <<quant, merge, codec, bits, scale, raster,
                 carpix, tool, faces>>

\* PackCarPixData(index, cdp): index has the dimensions of cdp, and the
\* program exits unless it has width * height pixels.
PackCarPixDataCall ==
  /\ pix.pc = "unpacked"
  /\ pix' = IF Len(pix.pixels) = 2 * HalfWidth * PixRows
            THEN [pc |-> "packed", data |-> PackCarPixData(pix.pixels),
                  input |-> pix.input, pixels |-> pix.pixels]
            ELSE [pc |-> "failed", data |-> pix.data, input |-> pix.input,
                  pixels |-> pix.pixels]
  /\ UNCHANGED <<quant, merge, codec, bits, scale, raster,
                 carpix, tool, faces>>

PixNext == CarPixPixelsCall \/ PackCarPixDataCall

SpecPix == PixInit /\ [][PixNext]_vars

\* C6, as stated: unpacking the 4bpp data with CarPix::Pixels and packing the
\* pixels with PackCarPixData gives the data back.
C6_RoundTrip == pix.pc = "packed" => pix.data = pix.input

\* C6, amended: the pixels hold the nibbles in their 4 high bits, so packing
\* them keeps of every byte b only its low nibble, as (b & 0x0F) << 4; a byte
\* comes back unchanged exactly when it is 0.
C6_LowNibbleKept ==
  pix.pc = "packed" =>
    /\ Len(pix.data) = Len(pix.input)
    /\ \A k \in 1..Len(pix.data) :
         /\ pix.data[k] = (pix.input[k] % 16) * 16
         /\ pix.data[k] = pix.input[k] <=> pix.input[k] = 0

\* The bytes 0xAB, 0xBB were unpacked and packed to 0xB0, 0xB0.
C6_Witness ==
  /\ pix.pc = "packed"
  /\ pix.input = <<171, 187>>
  /\ pix.pixels = <<176, 160, 176, 176>>
  /\ pix.data = <<176, 176>>

-----------------------------------------------------------------------------
(* util/bitpack.h: Unpack; car.h: the setters that pack a field, Normal32  *)
(* and Face.  A field is unpacked from a container, packed into a zeroed   *)
(* container, and unpacked again.                                          *)

\* Bits of the containers (uint16_t data_a, uint32_t data and data_c), and
\* of the type T that Unpack returns (int16_t, uint16_t).
kShortBits == 16
kWordBits == 32

\* A setter that masks the value and forgets to shift it into place.
PackFieldNoShift(v, data_bits, trailing_bits) ==
  <<BitAnd(ToUnsigned(v, kShortBits), LowBitsMask(data_bits)), 0>>

\* (v & LowBits<data_bits>()) << trailing_bits as a uint32_t: what a setter
\* ors into the container for the value v of a field.
PackField(v, data_bits, trailing_bits) ==
  ShiftLeft32(BitAnd(ToUnsigned(v, kShortBits), LowBitsMask(data_bits)),
              trailing_bits)

\* Face::i_normal(n) on the fields data_a (uint16_t) and data_c (uint32_t).
Face_i_normal(n, data_a, data_c) ==
  CASE n = 0 -> Unpack(FALSE, 9, 5, data_a)
    [] n = 1 -> Unpack32(FALSE, 9, 1, data_c)
    [] n = 2 -> Unpack32(FALSE, 9, 10, data_c)
    [] n = 3 -> Unpack32(FALSE, 9, 19, data_c)
    [] OTHER -> 0

\* Face::set_i_normals(a, b, c, d): the new data_a and data_c.
Face_set_i_normals(data_a, data_c, a, b, c, d) ==
  [data_a |-> ToUnsigned(BitOr(data_a, PackField(a, 9, 5)[1]), kShortBits),
   data_c |-> BitOr32(BitOr32(BitOr32(data_c, PackField(b, 9, 1)),
                              PackField(c, 9, 10)),
                      PackField(d, 9, 19))]

\* The values of the fields of the container x: one field of data_bits bits
\* above trailing_bits bits, the components of a Normal32, or the normal
\* indices of a Face.  A uint16_t is <<x>>, a uint32_t its two halves, and
\* a Face its data_a followed by the halves of its data_c.
UnpackFields(in, x) ==
  CASE in.kind = "short" ->
         <<Unpack(in.is_signed, in.data_bits, in.trailing_bits, x[1])>>
    [] in.kind = "word" ->
         <<Unpack32(in.is_signed, in.data_bits, in.trailing_bits, x)>>
    [] in.kind = "normal" ->
         <<Normal32_x(WriteInts(x)), Normal32_y(WriteInts(x)),
           Normal32_z(WriteInts(x))>>
    [] in.kind = "face" ->
         <<Face_i_normal(0, x[1], <<x[2], x[3]>>),
           Face_i_normal(1, x[1], <<x[2], x[3]>>),
           Face_i_normal(2, x[1], <<x[2], x[3]>>),
           Face_i_normal(3, x[1], <<x[2], x[3]>>)>>

FaceWords(f) == <<f.data_a, f.data_c[1], f.data_c[2]>>

\* A zeroed container with the values v packed into its fields.
PackFields(in, v) ==
  CASE in.kind = "short" ->
         <<PackField(v[1], in.data_bits, in.trailing_bits)[1]>>
    [] in.kind = "word" -> PackField(v[1], in.data_bits, in.trailing_bits)
    [] in.kind = "normal" -> Normal32_set(v[1], v[2], v[3])
    [] in.kind = "face" ->
         FaceWords(Face_set_i_normals(0, <<0, 0>>, v[1], v[2], v[3], v[4]))

\* Sample containers: uint16_t values, and uint32_t values as their halves.
Shorts == {0, 65535, 43690, 4660, 32769}
Words == {<<0, 0>>, <<65535, 65535>>, <<43690, 21845>>, <<4660, 34661>>,
          <<1, 32768>>}

BitsInputs ==
  {[kind |-> "short", is_signed |-> sg, data_bits |-> w, trailing_bits |-> t,
    x |-> <<x>>] :
     sg \in BOOLEAN, w \in 1..kShortBits, t \in 0..kShortBits, x \in Shorts}
  \cup
  {[kind |-> "word", is_signed |-> sg, data_bits |-> w, trailing_bits |-> t,
    x |-> x] :
     sg \in BOOLEAN, w \in 1..kShortBits, t \in 0..kWordBits, x \in Words}
  \cup {[kind |-> "normal", x |-> x] : x \in Words}
  \cup {[kind |-> "face", x |-> <<a, c[1], c[2]>>] :
          a \in Shorts, c \in Words}

\* static_assert(data_bits + trailing_bits <= 8 * sizeof(T_in))
BitsInit ==
  /\ quant = Idle /\ merge = Idle /\ codec = Idle /\ pix = Idle
  /\ scale = Idle /\ raster = Idle
  /\ carpix = Idle /\ tool = Idle /\ faces = Idle
  /\ bits \in {[pc |-> "start", in |-> in] :
                 in \in {i \in BitsInputs :
                           /\ i.kind = "short" =>
                                i.data_bits + i.trailing_bits <= kShortBits
                           /\ i.kind = "word" =>
                                i.data_bits + i.trailing_bits <= kWordBits}}

\* The fields are unpacked from the container.
UnpackCall ==
  /\ bits.pc = "start"
  /\ bits' = [pc |-> "unpacked", in |-> bits.in,
              values |-> UnpackFields(bits.in, bits.in.x)]
  /\ UNCHANGED <<quant, merge, codec, pix, scale, raster,
                 carpix, tool, faces>>

\* The values are packed into a zeroed container.
PackCall ==
  /\ bits.pc = "unpacked"
  /\ bits' = [pc |-> "packed", in |-> bits.in, values |-> bits.values,
              packed |-> PackFields(bits.in, bits.values)]
  /\ UNCHANGED <<quant, merge, codec, pix, scale, raster,
                 carpix, tool, faces>>

\* The fields are unpacked from the new container.
UnpackAgainCall ==
  /\ bits.pc = "packed"
  /\ bits' = [pc |-> "done", in |-> bits.in, values |-> bits.values,
              packed |-> bits.packed,
              again |-> UnpackFields(bits.in, bits.packed)]
  /\ UNCHANGED <<quant, merge, codec, pix, scale, raster,
                 carpix, tool, faces>>

BitsNext == UnpackCall \/ PackCall \/ UnpackAgainCall

SpecBits == BitsInit /\ [][BitsNext]_vars

\* C7: a field of 1 to 16 bits at any shift that its container allows, signed
\* or unsigned, has the same value when it is unpacked, packed into a zeroed
\* container and unpacked again.
C7_FieldRoundTrip == bits.pc = "done" => bits.again = bits.values

\* A signed field of 16 bits in the high half of a uint32_t held a negative
\* value and went through the round trip.
C7_Witness ==
  /\ bits.pc = "done"
  /\ bits.in.kind = "word"
  /\ bits.in.is_signed
  /\ bits.in.data_bits = 16
  /\ bits.in.trailing_bits = 16
  /\ bits.values[1] < 0
  /\ bits.packed = <<0, 34661>>

-----------------------------------------------------------------------------
(* car_from_obj.h: UpdateFromObj, the choice of the scale and the          *)
(* conversion of the bounds and of the verts.  A float is the integer it   *)
(* holds; a factor is the fraction num / den of two powers of two.         *)

\* The scale limit of UpdateFromObj, and the end of the valid codes.
kScaleLimit == 8192
kNumScales == 32

\* The bound of the int16_t that ToCarVec converts to.
kInt16Max == 32767

\* Verts of the OBJ in a mesh of the model.
MaxVerts == 2

\* Scale16::factor(): 2^(value - 16).
Scale16_factor(value) ==
  IF 16 - value < 0 THEN [num |-> ShiftLeft(1, value - 16), den |-> 1]
  ELSE [num |-> 1, den |-> ShiftLeft(1, 16 - value)]

\* Scale16::to_meters(): the power-of-two multiplier of the code.
Scale16_to_meters(value) == Scale16_factor(value)

\* absmax / scale.to_meters() > 8192, for a factor with num = 1 or den = 1.
OverLimit(absmax, f) ==
  IF f.den = 1 THEN absmax > kScaleLimit * f.num
  ELSE absmax > kScaleLimit \div f.den

\* A float converted to an integer: truncation toward zero of a / b, b > 0.
Truncate(a, b) == IF a >= 0 THEN a \div b ELSE -((-a) \div b)

\* static_cast<int16_t>(scale * m + 0.5f) with scale = 1 / to_meters.
ToCarCoord(m, f) == Truncate(2 * m * f.den + f.num, 2 * f.num)

\* ToCarVec(meters, scale): the fourth component is 0.
ToCarVec(meters, f) ==
  <<ToCarCoord(meters[1], f), ToCarCoord(meters[2], f),
    ToCarCoord(meters[3], f), 0>>

\* lo and hi of the bounding box of the verts.
BoundLo(verts) ==
  [k \in 1..3 |-> CHOOSE m \in {verts[i][k] : i \in 1..Len(verts)} :
                    \A i \in 1..Len(verts) : m <= verts[i][k]]
BoundHi(verts) ==
  [k \in 1..3 |-> CHOOSE m \in {verts[i][k] : i \in 1..Len(verts)} :
                    \A i \in 1..Len(verts) : m >= verts[i][k]]

\* absmax: the largest |lo.x|, |lo.y|, |lo.z|, |hi.x|, |hi.y|, |hi.z|.
AbsMax(lo, hi) ==
  Max(Max(Max(Abs(lo[1]), Abs(lo[2])), Abs(lo[3])),
      Max(Max(Abs(hi[1]), Abs(hi[2])), Abs(hi[3])))

\* while (scale.value < 32 && absmax / scale.to_meters() > 8192)
\*   ++scale.value;
RECURSIVE ScaleLoop(_, _)
ScaleLoop(value, absmax) ==
  IF value < kNumScales /\ OverLimit(absmax, Scale16_to_meters(value))
  THEN ScaleLoop(value + 1, absmax)
  ELSE value

\* "Scale16 scale;" has no initializer: the loop starts at whatever the
\* uint16_t holds.  These are the values tried for it.
IndeterminateValues == 0..40 \cup {255, 32768, 65535}

\* The model that UpdateFromObj leaves for an OBJ of verts only, given the
\* code the loop stopped at.
UpdatedModel(verts, value) ==
  [scale |-> value,
   lo_bound |-> ToCarVec(BoundLo(verts), Scale16_to_meters(value)),
   hi_bound |-> ToCarVec(BoundHi(verts), Scale16_to_meters(value)),
   verts |-> [i \in 1..Len(verts) |->
                ToCarVec(verts[i], Scale16_to_meters(value))],
   num_verts |-> Len(verts)]

VertSamples ==
  {<<0, 0, 0>>, <<1, -3, 2>>, <<8192, 0, -5>>, <<-20000, 100, 7>>,
   <<20000, 0, 0>>, <<16384, -16384, 1>>, <<0, 268435488, 0>>}

ObjInputs ==
  UNION {[1..n -> VertSamples] : n \in 0..MaxVerts}

ScaleInit ==
  /\ quant = Idle /\ merge = Idle /\ codec = Idle /\ pix = Idle
  /\ bits = Idle /\ raster = Idle
  /\ carpix = Idle /\ tool = Idle /\ faces = Idle
  /\ scale \in {[pc |-> "start", verts |-> o] : o \in ObjInputs}

\* UpdateFromObj(o, m) returns.
UpdateFromObjCall ==
  /\ scale.pc = "start"
  /\ Len(scale.verts) > 0
  /\ \E start \in IndeterminateValues :
       /\ ScaleLoop(start,
                    AbsMax(BoundLo(scale.verts), BoundHi(scale.verts)))
            < kNumScales
       /\ scale' =
            [pc |-> "done", verts |-> scale.verts,
             m |-> UpdatedModel(
                     scale.verts,
                     ScaleLoop(start, AbsMax(BoundLo(scale.verts),
                                             BoundHi(scale.verts))))]
  /\ UNCHANGED <<quant, merge, codec, pix, bits, raster,
                 carpix, tool, faces>>

\* CHECK_GT(o.verts.size(), 0) or CHECK_LT(scale.value, 32) fails.
UpdateFromObjCheckFails ==
  /\ scale.pc = "start"
  /\ \/ Len(scale.verts) = 0
     \/ /\ Len(scale.verts) > 0
        /\ \E start \in IndeterminateValues :
             ScaleLoop(start,
                       AbsMax(BoundLo(scale.verts), BoundHi(scale.verts)))
               >= kNumScales
  /\ scale' = [pc |-> "failed", verts |-> scale.verts]
  /\ UNCHANGED <<quant, merge, codec, pix, bits, raster,
                 carpix, tool, faces>>

ScaleNext == UpdateFromObjCall \/ UpdateFromObjCheckFails

SpecScale == ScaleInit /\ [][ScaleNext]_vars

\* The codes below 32 at which the largest coordinate passes the limit.
PassingCodes(verts) ==
  {c \in 0..(kNumScales - 1) :
     ~OverLimit(AbsMax(BoundLo(verts), BoundHi(verts)), Scale16_to_meters(c))}

\* C8: UpdateFromObj selects the first code below 32 at which the largest
\* absolute coordinate of the bounding box, divided by the scale of the code,
\* is not above 8192, and then every scaled coordinate of a vert is below
\* 8192 in magnitude and fits an int16_t; the call fails when no code below
\* 32 passes.
C8_ScaleSelection ==
  /\ scale.pc = "done" =>
       /\ scale.m.scale \in PassingCodes(scale.verts)
       /\ \A c \in PassingCodes(scale.verts) : scale.m.scale <= c
       /\ \A i \in 1..Len(scale.m.verts) : \A k \in 1..3 :
            /\ Abs(scale.m.verts[i][k]) < kScaleLimit
            /\ Abs(scale.m.verts[i][k]) <= kInt16Max
  /\ (scale.pc = "failed" /\ Len(scale.verts) > 0) =>
       PassingCodes(scale.verts) = {}

-----------------------------------------------------------------------------
(* util/image.h: DrawLine, Image::DrawTriangle; car_from_obj.h:            *)
(* RgbaToColor16, ExtractFacePalette.  An image is its width, height,      *)
(* channels and pixels; at(x, y) is pixels[x + y * width + 1]; a Vec2 is   *)
(* <<x, y>>.                                                               *)

\* Size of the texture and of the face-index image.
ImageWidth == 12
ImageHeight == 11

\* std::numeric_limits<int>::max(), std::numeric_limits<uint16_t>::max().
kIntMax == 2147483647
kInvalidFace == 65535

\* Lines::Set(v): row v.y of to_draw takes in v.x.
BoundsSet(to_draw, v) ==
  [to_draw EXCEPT ![v[2]] = [lo |-> Min(@.lo, v[1]), hi |-> Max(@.hi, v[1])]]

\* A turn that moves along x whatever e2 is.
LineStepAlongX(a, e2, dx, sx, dy, sy) ==
  <<ToUnsigned(a[1] + sx, 8),
    IF e2 <= dx THEN ToUnsigned(a[2] + sy, 8) ELSE a[2]>>

\* One turn of the loop of DrawLine on the point a (a Vec2<uint8_t>) and on
\* err, with e2 = 2 * err.
LineStep(a, e2, dx, sx, dy, sy) ==
  <<IF e2 >= dy THEN ToUnsigned(a[1] + sx, 8) ELSE a[1],
    IF e2 <= dx THEN ToUnsigned(a[2] + sy, 8) ELSE a[2]>>

ErrStep(err, e2, dx, dy) ==
  err + (IF e2 >= dy THEN dy ELSE 0) + (IF e2 <= dx THEN dx ELSE 0)

RECURSIVE LineLoop(_, _, _, _, _, _, _, _)
LineLoop(a, b, dx, sx, dy, sy, err, result) ==
  IF a = b THEN BoundsSet(result, a)
  ELSE LineLoop(LineStep(a, 2 * err, dx, sx, dy, sy), b, dx, sx, dy, sy,
                ErrStep(err, 2 * err, dx, dy), BoundsSet(result, a))

\* DrawLine(a, b, result) with the setter of DrawTriangle.
DrawLine(a, b, result) ==
  LineLoop(a, b,
           Abs(b[1] - a[1]), IF a[1] < b[1] THEN 1 ELSE -1,
           -Abs(b[2] - a[2]), IF a[2] < b[2] THEN 1 ELSE -1,
           Abs(b[1] - a[1]) - Abs(b[2] - a[2]), result)

\* The bounds that only two of the edges are drawn into.
TwoEdgeBounds(a, b, c, height) ==
  DrawLine(a, c,
    DrawLine(a, b, [y \in 0..(height - 1) |->
                      [lo |-> kIntMax, hi |-> -kIntMax - 1]]))

\* to_draw after the three outlines of DrawTriangle.
TriangleBounds(a, b, c, height) ==
  DrawLine(b, c,
    DrawLine(a, c,
      DrawLine(a, b, [y \in 0..(height - 1) |->
                        [lo |-> kIntMax, hi |-> -kIntMax - 1]])))

\* The filling loop of DrawTriangle.
FillRows(im, to_draw, value) ==
  [im EXCEPT !.pixels =
     [i \in 1..Len(im.pixels) |->
        IF \E y \in 0..(im.height - 1) :
             \E x \in to_draw[y].lo..Min(im.width - 1, to_draw[y].hi) :
               i = x + y * im.width + 1
        THEN value ELSE im.pixels[i]]]

\* Image::DrawTriangle(a, b, c, value): the image afterwards.
DrawTriangle(im, a, b, c, value) ==
  FillRows(im, TriangleBounds(a, b, c, im.height), value)

\* Color16::FromRgb8(r, g, b, force_opaque).
Color16_FromRgb8(r, g, b, force_opaque_bit) == SetRgb(r, g, b, force_opaque_bit)

\* RgbaToColor16(r, g, b, a).
RgbaToColor16(r, g, b, a) ==
  IF a = 0 THEN 0
  ELSE Color16_FromRgb8(r, g, b, IF r = 0 /\ g = 0 /\ b = 0 THEN 1 ELSE 0)

\* lo and hi of ExtractFacePalette: the bounds of the UVs of the face, within
\* the texture.
Vec2Min(a, b) == <<Min(a[1], b[1]), Min(a[2], b[2])>>
Vec2Max(a, b) == <<Max(a[1], b[1]), Max(a[2], b[2])>>

FaceLo(f) ==
  Vec2Max(IF f.is_quad
          THEN Vec2Min(Vec2Min(Vec2Min(f.uv0, f.uv1), f.uv2), f.uv3)
          ELSE Vec2Min(Vec2Min(f.uv0, f.uv1), f.uv2),
          <<0, 0>>)

FaceHi(f, tex) ==
  Vec2Min(IF f.is_quad
          THEN Vec2Max(Vec2Max(Vec2Max(f.uv0, f.uv1), f.uv2), f.uv3)
          ELSE Vec2Max(Vec2Max(f.uv0, f.uv1), f.uv2),
          <<ToUnsigned(tex.width - 1, 8), ToUnsigned(tex.height - 1, 8)>>)

\* A drawing that leaves the pixels that already hold a face index.
DrawFaceUnder(f, face_index, face_indices) ==
  [face_indices EXCEPT !.pixels =
     [i \in 1..Len(face_indices.pixels) |->
        IF face_indices.pixels[i] # kInvalidFace THEN face_indices.pixels[i]
        ELSE (IF f.is_quad
              THEN DrawTriangle(DrawTriangle(face_indices, f.uv0, f.uv1,
                                             f.uv2, face_index),
                                f.uv0, f.uv2, f.uv3, face_index)
              ELSE DrawTriangle(face_indices, f.uv0, f.uv1, f.uv2,
                                face_index)).pixels[i]]]

\* The image after the DrawTriangle calls of ExtractFacePalette.
DrawFace(f, face_index, face_indices) ==
  IF f.is_quad
  THEN DrawTriangle(DrawTriangle(face_indices, f.uv0, f.uv1, f.uv2,
                                 face_index),
                    f.uv0, f.uv2, f.uv3, face_index)
  ELSE DrawTriangle(face_indices, f.uv0, f.uv1, f.uv2, face_index)

\* The colour of the texel at index tx of the pixels of the texture.
TexelColor(tex, tx) ==
  RgbaToColor16(tex.pixels[tx + 1], tex.pixels[tx + 2], tex.pixels[tx + 3],
                tex.pixels[tx + 4])

\* ++p[color] on a std::map<Color16, uint16_t>.
Increment(p, color) ==
  (color :> ToUnsigned((IF color \in DOMAIN p THEN p[color] ELSE 0) + 1, 16))
    @@ p

\* The body of the scan on the pixel (x, y).
ScanPixel(p, x, y, tex, face_indices, face_index) ==
  IF face_indices.pixels[x + y * tex.width + 1] # face_index THEN p
  ELSE Increment(p, TexelColor(tex, x * 4 + y * tex.width * 4))

\* A scan of a row that leaves its last column out.
RECURSIVE ScanRowShort(_, _, _, _, _, _, _)
ScanRowShort(x, y, hi_x, tex, face_indices, face_index, p) ==
  IF x >= hi_x THEN p
  ELSE ScanRowShort(x + 1, y, hi_x, tex, face_indices, face_index,
                    ScanPixel(p, x, y, tex, face_indices, face_index))

\* for (int x = lo.x; x <= hi.x; ++x), from x on.
RECURSIVE ScanRow(_, _, _, _, _, _, _)
ScanRow(x, y, hi_x, tex, face_indices, face_index, p) ==
  IF x > hi_x THEN p
  ELSE ScanRow(x + 1, y, hi_x, tex, face_indices, face_index,
               ScanPixel(p, x, y, tex, face_indices, face_index))

\* for (int y = lo.y; y <= hi.y; ++y), from y on.  The test on the keys of
\* p has TLC evaluate the map once a row, not all rows at the end.
RECURSIVE ScanFace(_, _, _, _, _, _, _)
ScanFace(y, lo, hi, tex, face_indices, face_index, p) ==
  IF y > hi[2] \/ ~IsFiniteSet(DOMAIN p) THEN p
  ELSE ScanFace(y + 1, lo, hi, tex, face_indices, face_index,
                ScanRow(lo[1], y, hi[1], tex, face_indices, face_index, p))

\* The CHECKs of ExtractFacePalette.
FacePaletteChecks(tex, face_indices) ==
  /\ face_indices.width = tex.width
  /\ face_indices.height = tex.height
  /\ face_indices.channels = 1
  /\ tex.channels = 4
  /\ tex.width <= 256
  /\ tex.height <= 256

\* ExtractFacePalette(f, tex, face_index, face_indices): the map returned,
\* given the face-index image that the DrawTriangle calls left.
ExtractFacePalette(f, tex, face_index, drawn) ==
  ScanFace(FaceLo(f)[2], FaceLo(f), FaceHi(f, tex), tex, drawn, face_index,
           EmptyMap)

\* Textures: two colours side by side; or opaque black, transparent and a
\* third colour in turn.
TexKinds == {"halves", "mixed"}

Texel(kind, x, y) ==
  IF kind = "halves"
  THEN (IF x < 5 THEN <<255, 0, 0, 255>> ELSE <<0, 0, 255, 255>>)
  ELSE CASE (x + y) % 3 = 0 -> <<0, 0, 0, 255>>
         [] (x + y) % 3 = 1 -> <<0, 0, 0, 0>>
         [] OTHER -> <<8, 16, 24, 255>>

Texture(kind) ==
  [width |-> ImageWidth, height |-> ImageHeight, channels |-> 4,
   pixels |-> [i \in 1..(ImageWidth * ImageHeight * 4) |->
                 Texel(kind, ((i - 1) \div 4) % ImageWidth,
                       ((i - 1) \div 4) \div ImageWidth)[((i - 1) % 4) + 1]]]

\* Face-index images as ExtractFacePalettes has them when it comes to a
\* face: kInvalidFace, or the index of an earlier face.
IndexKinds == {"fresh", "earlier"}

FaceIndices(kind) ==
  [width |-> ImageWidth, height |-> ImageHeight, channels |-> 1,
   pixels |-> [i \in 1..(ImageWidth * ImageHeight) |->
                 IF kind = "earlier" /\ i % 3 = 0 THEN 0 ELSE kInvalidFace]]

UvSamples ==
  {<<0, 0>>, <<10, 0>>, <<0, 10>>, <<5, 3>>, <<ImageWidth + 1, 2>>,
   <<7, ImageHeight - 1>>}

FaceSamples ==
  {[uv0 |-> a, uv1 |-> b, uv2 |-> c, uv3 |-> <<0, 0>>, is_quad |-> FALSE] :
     a \in UvSamples, b \in UvSamples, c \in UvSamples}
  \cup
  {[uv0 |-> <<0, 0>>, uv1 |-> b, uv2 |-> c, uv3 |-> d, is_quad |-> TRUE] :
     b \in {<<0, 10>>, <<5, 3>>}, c \in {<<10, 10>>, <<7, ImageHeight - 1>>},
     d \in {<<10, 0>>, <<ImageWidth + 1, 2>>}}

RasterInit ==
  /\ quant = Idle /\ merge = Idle /\ codec = Idle /\ pix = Idle
  /\ bits = Idle /\ scale = Idle
  /\ carpix = Idle /\ tool = Idle /\ faces = Idle
  /\ raster \in {[pc |-> "start", f |-> f, face_index |-> n, tex |-> t,
                  indices |-> k, face_indices |-> FaceIndices(k)] :
                   f \in FaceSamples, n \in {1, 3}, t \in TexKinds,
                   k \in IndexKinds}

\* face_indices.DrawTriangle(f.uv0, f.uv1, f.uv2, face_index) returns.
DrawTriangleCall ==
  /\ raster.pc = "start"
  /\ raster' = [raster EXCEPT
                 !.pc = "drawn",
                 !.face_indices = DrawTriangle(raster.face_indices,
                                               raster.f.uv0, raster.f.uv1,
                                               raster.f.uv2,
                                               raster.face_index)]
  /\ UNCHANGED <<quant, merge, codec, pix, bits, scale,
                 carpix, tool, faces>>

ExtractReturn(drawn) ==
  [pc |-> "extracted", f |-> raster.f, face_index |-> raster.face_index,
   tex |-> raster.tex, indices |-> raster.indices, face_indices |-> drawn,
   p |-> ExtractFacePalette(raster.f, Texture(raster.tex), raster.face_index,
                            drawn)]

\* ExtractFacePalette(f, tex, face_index, face_indices) returns.
ExtractFacePaletteCall ==
  /\ raster.pc = "start"
  /\ FacePaletteChecks(Texture(raster.tex), raster.face_indices)
  /\ raster' = ExtractReturn(DrawFace(raster.f, raster.face_index,
                                      raster.face_indices))
  /\ UNCHANGED <<quant, merge, codec, pix, bits, scale,
                 carpix, tool, faces>>

RasterNext == DrawTriangleCall \/ ExtractFacePaletteCall

SpecRaster == RasterInit /\ [][RasterNext]_vars

\* The pixels of the Bresenham edge from a to b: one per step along the
\* longer axis, the other coordinate rounded to the nearest, halves away
\* from a.
EdgePixels(a, b) ==
  IF Abs(b[1] - a[1]) >= Abs(b[2] - a[2])
  THEN {<<a[1] + (IF a[1] < b[1] THEN t ELSE -t),
          a[2] + (IF a[2] < b[2] THEN 1 ELSE -1)
                 * (IF a[1] = b[1] THEN 0
                    ELSE (2 * t * Abs(b[2] - a[2]) + Abs(b[1] - a[1]))
                           \div (2 * Abs(b[1] - a[1])))>> :
          t \in 0..Abs(b[1] - a[1])}
  ELSE {<<a[1] + (IF a[1] < b[1] THEN 1 ELSE -1)
                 * ((2 * t * Abs(b[1] - a[1]) + Abs(b[2] - a[2]))
                      \div (2 * Abs(b[2] - a[2]))),
          a[2] + (IF a[2] < b[2] THEN t ELSE -t)>> :
          t \in 0..Abs(b[2] - a[2])}

TriangleEdges(a, b, c) ==
  EdgePixels(a, b) \cup EdgePixels(a, c) \cup EdgePixels(b, c)

\* (x, y) lies in the span of row y of the triangle a, b, c.
InSpan(x, y, edges) ==
  \E p \in edges : \E q \in edges :
    p[2] = y /\ q[2] = y /\ p[1] <= x /\ x <= q[1]

\* The pixels (x, y) of the face-index image that hold the face index.
Tagged ==
  {xy \in (0..(ImageWidth - 1)) \X (0..(ImageHeight - 1)) :
     raster.face_indices.pixels[xy[1] + xy[2] * ImageWidth + 1]
       = raster.face_index}

\* C9: DrawTriangle(a, b, c, value) sets to value exactly the pixels (x, y)
\* of the rows that one of the Bresenham edges a-b, a-c, b-c visits, with x
\* between the smallest and the largest edge x of the row (and at most
\* width - 1), and leaves every other pixel as it was; for (0,0), (10,0),
\* (0,10) these are the 66 pixels with 0 <= y <= 10 and 0 <= x <= 10 - y.
C9_TriangleSpans ==
  raster.pc = "drawn" =>
    /\ \A x \in 0..(ImageWidth - 1) : \A y \in 0..(ImageHeight - 1) :
         raster.face_indices.pixels[x + y * ImageWidth + 1] =
           IF InSpan(x, y, TriangleEdges(raster.f.uv0, raster.f.uv1,
                                         raster.f.uv2))
           THEN raster.face_index
           ELSE FaceIndices(raster.indices).pixels[x + y * ImageWidth + 1]
    /\ (raster.f.uv0 = <<0, 0>> /\ raster.f.uv1 = <<10, 0>>
        /\ raster.f.uv2 = <<0, 10>>) =>
         /\ Tagged = {xy \in (0..10) \X (0..10) : xy[1] <= 10 - xy[2]}
         /\ Cardinality(Tagged) = 66

\* The triangle (0,0), (10,0), (0,10) was drawn over the indices of an
\* earlier face and tagged 66 pixels.
C9_Witness ==
  /\ raster.pc = "drawn"
  /\ raster.f.uv0 = <<0, 0>> /\ raster.f.uv1 = <<10, 0>>
  /\ raster.f.uv2 = <<0, 10>>
  /\ raster.indices = "earlier"
  /\ Cardinality(Tagged) = 66

\* The tagged pixels inside the bounds of the UVs of the face.
TaggedInBounds ==
  {xy \in Tagged :
     /\ FaceLo(raster.f)[1] <= xy[1]
     /\ xy[1] <= FaceHi(raster.f, Texture(raster.tex))[1]
     /\ FaceLo(raster.f)[2] <= xy[2]
     /\ xy[2] <= FaceHi(raster.f, Texture(raster.tex))[2]}

ColorAt(xy) ==
  TexelColor(Texture(raster.tex), 4 * (xy[1] + xy[2] * ImageWidth))

\* C10: the histogram of ExtractFacePalette counts, for each colour, the
\* pixels inside the bounds of the UVs of the face that hold the face index
\* and whose texel converts to the colour; it has no other keys, and its
\* counts add up to the number of pixels that hold the face index.
C10_FaceHistogram ==
  raster.pc = "extracted" =>
    /\ DOMAIN raster.p = {ColorAt(xy) : xy \in TaggedInBounds}
    /\ \A color \in DOMAIN raster.p :
         raster.p[color] =
           Cardinality({xy \in TaggedInBounds : ColorAt(xy) = color})
    /\ MapSum(raster.p) = Cardinality(Tagged)

\* The triangle (0,0), (10,0), (0,10) over the texture of two colours: 45
\* pixels of the first and 21 of the second.
C10_Witness ==
  /\ raster.pc = "extracted"
  /\ ~raster.f.is_quad
  /\ raster.f.uv0 = <<0, 0>> /\ raster.f.uv1 = <<10, 0>>
  /\ raster.f.uv2 = <<0, 10>>
  /\ raster.tex = "halves"
  /\ raster.p = (31 :> 45) @@ (31744 :> 21)

-----------------------------------------------------------------------------
(* The checks of CarObject::FromStream.                                    *)

\* Bytes of a decoded model, and of the decoded shadow.
ModelSize(m) ==
  kModelHeaderSize + kVertSize * Len(m.verts) + kNormalSize * Len(m.normals)
    + kFaceSize * (Len(m.tris) + Len(m.quads))
    + kTexFaceSize * (Len(m.tex_tris) + Len(m.tex_quads))

ShadowSize(sh) ==
  kShadowHeaderSize + kShadowVertSize * Len(sh.verts)
    + kShadowFaceSize * (Len(sh.tris) + Len(sh.quads))

\* Offset in the file of LOD i of the decoded object.
LodOffset(lods, i) ==
  kCarHeaderSize + kPaddingSize + 2 + 2 * kNumUnknown1
    + SumSeq([j \in 1..(i - 1) |-> ModelSize(lods[j])])

\* C11: CarObject::FromStream returns an object only if the magic is
\* "GT\2\0", the 20 reserved bytes of the header and the 0x828 bytes after
\* the header are zero, and no byte remains after the shadow; the object then
\* holds num_lods models, read one after the other, followed by the shadow.
C11_DecodeChecks ==
  codec.pc \in {"decoded", "serialized"} =>
    /\ SubSeq(codec.bytes, 1, 4) = <<71, 84, 2, 0>>
    /\ \A i \in 5..24 : codec.bytes[i] = 0
    /\ \A i \in (kCarHeaderSize + 1)..(kCarHeaderSize + 2088) :
         codec.bytes[i] = 0
    /\ Len(codec.car.lods)
         = codec.bytes[kCarHeaderSize + 2089]
             + 256 * codec.bytes[kCarHeaderSize + 2090]
    /\ \A i \in 1..Len(codec.car.lods) :
         codec.car.lods[i].header
           = SubSeq(codec.bytes, LodOffset(codec.car.lods, i) + 1,
                    LodOffset(codec.car.lods, i) + kModelHeaderSize)
    /\ codec.car.shadow.header
         = SubSeq(codec.bytes,
                  LodOffset(codec.car.lods, Len(codec.car.lods) + 1) + 1,
                  LodOffset(codec.car.lods, Len(codec.car.lods) + 1)
                    + kShadowHeaderSize)
    /\ LodOffset(codec.car.lods, Len(codec.car.lods) + 1)
         + ShadowSize(codec.car.shadow) = Len(codec.bytes)

\* A file whose fourth magic byte is not zero was refused.
C11_Witness ==
  /\ codec.pc = "failed"
  /\ codec.why.why = "header"
  /\ SubSeq(codec.bytes, 1, 4) = <<71, 84, 2, 1>>
  /\ \A i \in 5..24 : codec.bytes[i] = 0

-----------------------------------------------------------------------------
(* CarPix::FromStream and CarPix::Serialize (car.h).  A cdp/cnp file is     *)
(* 45984 bytes long; a byte string is held as its runs, <<byte, count>>     *)
(* with count > 0 and adjacent runs of different bytes.                     *)

\* constexpr int kMaxPalettes = 30.
kMaxPalettes == 30

\* sizeof(CarPix::Header) and sizeof(CarPix::Palette).
kPixHeaderSize == 32
kPaletteSize == 576

\* The position CarPix::FromStream checks before it reads the pixels.
kPixelOffset == 17312

\* width * 224 / 2, the pixel bytes of a file, and 256 * 128, the size the
\* decoded buffer is resized to.
kPixelBytes == 28672
kResizedBytes == 32768

\* The number of bytes of a byte string.
RECURSIVE RunsLen(_)
RunsLen(s) == IF s = <<>> THEN 0 ELSE s[1][2] + RunsLen(Tail(s))

\* The canonical runs of a byte string: no empty run, no two adjacent runs of
\* one byte.
RECURSIVE RunsNorm(_)
RunsNorm(s) ==
  IF s = <<>> THEN <<>>
  ELSE IF s[1][2] = 0 THEN RunsNorm(Tail(s))
  ELSE IF Len(s) = 1 THEN s
  ELSE IF s[2][2] = 0 THEN RunsNorm(<<s[1]>> \o Tail(Tail(s)))
  ELSE IF s[2][1] = s[1][1]
    THEN RunsNorm(<<(<<s[1][1], s[1][2] + s[2][2]>>)>> \o Tail(Tail(s)))
  ELSE <<s[1]>> \o RunsNorm(Tail(s))

\* The first n bytes of a byte string, and the bytes after them.
RECURSIVE RunsTake(_, _)
RunsTake(s, n) ==
  IF n <= 0 \/ s = <<>> THEN <<>>
  ELSE IF s[1][2] >= n THEN <<(<<s[1][1], n>>)>>
  ELSE <<s[1]>> \o RunsTake(Tail(s), n - s[1][2])

RECURSIVE RunsDrop(_, _)
RunsDrop(s, n) ==
  IF n <= 0 \/ s = <<>> THEN s
  ELSE IF s[1][2] > n THEN <<(<<s[1][1], s[1][2] - n>>)>> \o Tail(s)
  ELSE RunsDrop(Tail(s), n - s[1][2])

\* The size bytes at offset pos (Stream::Read of 'size' bytes at 'pos').
RunsRead(s, pos, size) == RunsNorm(RunsTake(RunsDrop(s, pos), size))

\* The byte at offset pos.
RunsByte(s, pos) == RunsDrop(s, pos)[1][1]

\* An IsZero that looks at the first run only.
IsZeroFirstRun(s) == s = <<>> \/ s[1][1] = 0

\* IsZero (util/io.h) of a byte string.
IsZeroRuns(s) == \A i \in 1..Len(s) : s[i][1] = 0

\* std::vector<uint8_t>::resize(size): cut, or filled with zeros.
RunsResize(s, size) ==
  IF RunsLen(s) >= size THEN RunsNorm(RunsTake(s, size))
  ELSE RunsNorm(s \o <<(<<0, size - RunsLen(s)>>)>>)

\* Header::num_palettes, a little-endian uint16_t at offset 0.
NumPalettesOf(s) == RunsByte(s, 0) + 256 * RunsByte(s, 1)

\* s.Read<Palette>(n): n palettes of 576 bytes from offset 32.
ReadPalettes(s, n) ==
  [i \in 1..n |-> RunsRead(s, kPixHeaderSize + (i - 1) * kPaletteSize,
                           kPaletteSize)]

\* pad_size = (kMaxPalettes - num_palettes) * sizeof(Palette).
PadSize(n) == (kMaxPalettes - n) * kPaletteSize

\* The CarPix that FromStream returns once every check has passed.
DecodedCarPix(s, n) ==
  [pc |-> "decoded",
   file |-> s,
   num_palettes |-> n,
   palette_id |-> RunsRead(s, 2, kMaxPalettes),
   palettes |-> ReadPalettes(s, n),
   padding |-> RunsRead(s, kPixHeaderSize + n * kPaletteSize, PadSize(n)),
   data |-> RunsResize(RunsRead(s, kPixelOffset, kPixelBytes), kResizedBytes)]

FailedCarPix(s, why) == [pc |-> "failed", file |-> s, why |-> why]

\* The checks of FromStream after the palettes were read: n is the count of
\* the header, size the length of the file.  Every Read checks that the
\* stream holds the bytes it asks for.
CarPixAfterPalettes(s, n, size) ==
  LET pad_pos == kPixHeaderSize + n * kPaletteSize
      data_pos == pad_pos + PadSize(n)
  IN IF size - pad_pos < PadSize(n) THEN FailedCarPix(s, "read")
     ELSE IF ~IsZeroRuns(RunsRead(s, pad_pos, PadSize(n)))
       THEN FailedCarPix(s, "padding")
     ELSE IF data_pos # kPixelOffset THEN FailedCarPix(s, "pos")
     ELSE IF size - data_pos < kPixelBytes THEN FailedCarPix(s, "read")
     ELSE IF size - data_pos - kPixelBytes # 0 THEN FailedCarPix(s, "remain")
     ELSE DecodedCarPix(s, n)

\* CarPix::FromStream.
CarPixFromStream(s) ==
  IF RunsLen(s) < kPixHeaderSize THEN FailedCarPix(s, "read")
  ELSE IF NumPalettesOf(s) > kMaxPalettes THEN FailedCarPix(s, "count")
  ELSE IF RunsLen(s) - kPixHeaderSize < NumPalettesOf(s) * kPaletteSize
    THEN FailedCarPix(s, "read")
  ELSE CarPixAfterPalettes(s, NumPalettesOf(s), RunsLen(s))

\* The files decoded: a header with count n, the palettes the count names
\* (at most 30) filled with one byte, the unused slots, zero or with one
\* byte set, and the pixel bytes, of the right length or not.
CarPixCounts == {0, 1, 2, 29, 30, 31, 256}
CarPixPads == {"zero", "first", "last"}

PaddingRuns(size, pad) ==
  IF size = 0 \/ pad = "zero" THEN <<(<<0, size>>)>>
  ELSE IF pad = "first" THEN <<(<<9, 1>>), (<<0, size - 1>>)>>
  ELSE <<(<<0, size - 1>>), (<<9, 1>>)>>

CarPixFile(n, fill, pad, pixel, size) ==
  LET held == IF n > kMaxPalettes THEN kMaxPalettes ELSE n
  IN RunsNorm(<<(<<n % 256, 1>>), (<<n \div 256, 1>>), (<<1, kMaxPalettes>>),
                (<<fill, held * kPaletteSize>>)>>
              \o PaddingRuns(PadSize(held), pad)
              \o <<(<<pixel, size>>)>>)

CarPixFiles ==
  { CarPixFile(n, fill, pad, pixel, size) :
      n \in CarPixCounts, fill \in {0, 7}, pad \in CarPixPads,
      pixel \in {0, 5},
      size \in {kPixelBytes - 1, kPixelBytes, kPixelBytes + 1, kResizedBytes} }
  \cup {<<(<<1, 1>>)>>, <<(<<0, kPixHeaderSize>>)>>}

\* const int width = 256 and const int height = 256 of a CarPix.
kCarPixWidth == 256
kCarPixHeight == 256

\* The bytes of a CarPix::Header: num_palettes, little-endian, and the 30
\* palette ids.
HeaderRuns(cp) ==
  <<(<<cp.num_palettes % 256, 1>>), (<<cp.num_palettes \div 256, 1>>)>>
  \o cp.palette_id

\* out.Write(palettes): the palettes one after the other.
RECURSIVE PaletteRuns(_)
PaletteRuns(palettes) ==
  IF palettes = <<>> THEN <<>>
  ELSE palettes[1] \o PaletteRuns(Tail(palettes))

\* A Serialize that leaves out out.Resize.
SerializedUnpadded(cp) ==
  RunsNorm(HeaderRuns(cp) \o PaletteRuns(cp.palettes) \o cp.data)

\* The bytes CarPix::Serialize writes: header, palettes, out.Resize to
\* sizeof(Header) + kMaxPalettes * sizeof(Palette), data.
SerializedCarPix(cp) ==
  RunsNorm(RunsResize(HeaderRuns(cp) \o PaletteRuns(cp.palettes),
                      kPixHeaderSize + kMaxPalettes * kPaletteSize)
           \o cp.data)

\* CarPix::Serialize, its three checks first.
CarPixSerialize(cp) ==
  LET why == IF cp.num_palettes > kMaxPalettes THEN "count"
             ELSE IF cp.num_palettes # Len(cp.palettes) THEN "palettes"
             ELSE IF RunsLen(cp.data) # kPixelBytes THEN "data"
             ELSE "none"
  IN IF why # "none"
     THEN [pc |-> "refused", why |-> why, num_palettes |-> cp.num_palettes,
           palette_id |-> cp.palette_id, palettes |-> cp.palettes,
           data |-> cp.data, bytes |-> <<>>]
     ELSE [pc |-> "serialized", why |-> why,
           num_palettes |-> cp.num_palettes, palette_id |-> cp.palette_id,
           palettes |-> cp.palettes, data |-> cp.data,
           bytes |-> SerializedCarPix(cp)]

\* InitCarPix followed by PackCarPixData of an index image whose pixels are
\* lo and hi in turn: one palette, and num_pixels / 2 bytes of data.
PackedCarPix(index) ==
  [pc |-> "held", why |-> "none", num_palettes |-> 1,
   palette_id |-> <<(<<1, 1>>), (<<0, kMaxPalettes - 1>>)>>,
   palettes |-> <<RunsNorm(<<(<<index.color, 512>>), (<<0, 64>>)>>)>>,
   data |-> <<(<<PackCarPixData(<<index.lo, index.hi>>)[1],
                 (index.width * index.height) \div 2>>)>>,
   bytes |-> <<>>]

\* The CarPix values handed to Serialize: a count, the palettes held, each
\* filled with one byte, and a pixel buffer.
HeldCarPix ==
  { [pc |-> "held", why |-> "none", num_palettes |-> n,
     palette_id |-> <<(<<1, kMaxPalettes>>)>>,
     palettes |-> [i \in 1..held |-> <<(<<fill, kPaletteSize>>)>>],
     data |-> <<(<<pixel, size>>)>>, bytes |-> <<>>] :
      n \in {0, 1, 2, 30, 31, 257}, held \in {0, 1, 2, 30, 31},
      fill \in {0, 7}, pixel \in {0, 5},
      size \in {kPixelBytes - 1, kPixelBytes, kResizedBytes} }

\* The index images handed to PackCarPixData.
IndexImages ==
  [pc : {"index"}, width : {kCarPixWidth}, height : {224, kCarPixHeight},
   color : {0, 7}, lo : {0, 3, 15}, hi : {0, 15}]

CarPixInit ==
  /\ carpix \in [pc : {"file"}, file : CarPixFiles] \cup HeldCarPix
                   \cup IndexImages
  /\ quant = Idle /\ merge = Idle /\ codec = Idle /\ pix = Idle
  /\ bits = Idle /\ scale = Idle /\ raster = Idle
  /\ tool = Idle /\ faces = Idle

CarPixFromStreamCall ==
  /\ carpix.pc = "file"
  /\ carpix' = CarPixFromStream(carpix.file)
  /\ UNCHANGED <<quant, merge, codec, pix, bits, scale, raster, tool, faces>>

\* PackCdo: InitCarPix, then PackCarPixData with its checks of the image.
PackCarPixCall ==
  /\ carpix.pc = "index"
  /\ carpix' = IF carpix.width = kCarPixWidth /\ carpix.height = kCarPixHeight
               THEN PackedCarPix(carpix)
               ELSE [pc |-> "stopped", index |-> carpix]
  /\ UNCHANGED <<quant, merge, codec, pix, bits, scale, raster, tool, faces>>

CarPixSerializeCall ==
  /\ carpix.pc = "held"
  /\ carpix' = CarPixSerialize(carpix)
  /\ UNCHANGED <<quant, merge, codec, pix, bits, scale, raster, tool, faces>>

CarPixNext ==
  CarPixFromStreamCall \/ PackCarPixCall \/ CarPixSerializeCall

SpecCarPix == CarPixInit /\ [][CarPixNext]_vars

\* The unused sub-palette slots of a file whose header names n palettes.
UnusedSlots(s, n) == RunsRead(s, kPixHeaderSize + n * kPaletteSize, PadSize(n))

\* C12: CarPix::FromStream fails when the sub-palette count of the header
\* exceeds 30, when a byte of the unused sub-palette slots is not zero, and
\* when bytes remain after the pixels; a file it accepts has a count n of at
\* most 30, its n palettes lie directly after the 32-byte header, palettes
\* and padding end at offset 17312, the 28672 pixel bytes are the bytes from
\* 17312 on, and the file ends with them.
C12_CarPixDecodeChecks ==
  carpix.pc \in {"decoded", "failed"} =>
    LET s == carpix.file
        n == NumPalettesOf(s)
    IN /\ (RunsLen(s) >= kPixHeaderSize /\ n > kMaxPalettes)
            => carpix.pc = "failed"
       /\ (RunsLen(s) >= kPixHeaderSize /\ n <= kMaxPalettes
             /\ \E i \in 1..Len(UnusedSlots(s, n)) : UnusedSlots(s, n)[i][1] # 0)
            => carpix.pc = "failed"
       /\ RunsLen(s) > kPixelOffset + kPixelBytes => carpix.pc = "failed"
       /\ carpix.pc = "decoded" =>
            /\ n \in 0..kMaxPalettes
            /\ carpix.num_palettes = n
            /\ Len(carpix.palettes) = n
            /\ \A i \in 1..n :
                 carpix.palettes[i] =
                   RunsRead(s, kPixHeaderSize + (i - 1) * kPaletteSize,
                            kPaletteSize)
            /\ RunsLen(carpix.padding) = kPixelOffset - kPixHeaderSize
                                           - n * kPaletteSize
            /\ IsZeroRuns(carpix.padding)
            /\ RunsRead(carpix.data, 0, kPixelBytes)
                 = RunsRead(s, kPixelOffset, kPixelBytes)
            /\ RunsLen(s) = kPixelOffset + kPixelBytes

\* A file of 29 palettes whose last unused byte is set is refused.
C12_Witness ==
  /\ carpix.pc = "failed"
  /\ carpix.why = "padding"
  /\ NumPalettesOf(carpix.file) = 29
  /\ RunsByte(carpix.file, kPixelOffset - 1) = 9

\* C13: the bytes of a successful CarPix::Serialize hold the palettes
\* directly after the 32-byte header, zero bytes from the end of the last
\* palette up to offset 17312, and from 17312 on the pixel data, 28672 bytes
\* long, 45984 bytes in all; Serialize fails when num_palettes exceeds 30,
\* differs from the number of palettes held, or the pixel buffer is not 28672
\* bytes long.
C13_CarPixLayout ==
  carpix.pc \in {"serialized", "refused"} =>
    LET n == carpix.num_palettes
        b == carpix.bytes
    IN /\ (n > kMaxPalettes \/ n # Len(carpix.palettes)
              \/ RunsLen(carpix.data) # kPixelBytes)
            => carpix.pc = "refused" /\ b = <<>>
       /\ carpix.pc = "serialized" =>
            /\ NumPalettesOf(b) = n
            /\ \A i \in 1..n :
                 RunsRead(b, kPixHeaderSize + (i - 1) * kPaletteSize,
                          kPaletteSize) = RunsNorm(carpix.palettes[i])
            /\ IsZeroRuns(RunsRead(b, kPixHeaderSize + n * kPaletteSize,
                                   kPixelOffset - kPixHeaderSize
                                     - n * kPaletteSize))
            /\ RunsRead(b, kPixelOffset, kPixelBytes) = RunsNorm(carpix.data)
            /\ RunsLen(b) = kPixelOffset + kPixelBytes
            /\ RunsLen(b) = 45984

\* Two palettes of sevens and 28672 pixel bytes were serialized.
C13_Witness ==
  /\ carpix.pc = "serialized"
  /\ carpix.num_palettes = 2
  /\ carpix.palettes[2] = <<(<<7, kPaletteSize>>)>>
  /\ carpix.data = <<(<<5, kPixelBytes>>)>>

\* The buffer PackCarPixData leaves, 256 * 256 / 2 bytes, is refused.
C13_PackedRefused ==
  /\ carpix.pc = "refused"
  /\ carpix.why = "data"
  /\ carpix.data = <<(<<243, kResizedBytes>>)>>

-----------------------------------------------------------------------------
(* PackCdo (cdotool.cpp): a base cdo and up to three OBJ files are made     *)
(* into a cdp and a cdo file.  An OBJ is held as its verts, the number of   *)
(* its normals and the kinds of its faces; a converted normal or face is    *)
(* held as its position in the OBJ (the packing of a face is the subject of *)
(* the section on faces), so that a Model holds as many elements, in the    *)
(* order, that UpdateFromObj gives it.  The steps on the texture (lines     *)
(* 135-158 and 207-222) change the CarPix and the palette selectors of the  *)
(* textured faces only and are left to the sections on palettes.            *)

\* for (int i = 0; i < 3; ++i): the LODs PackCdo converts.
kPackedLods == 3

\* CHECK_LE(obj.verts.size(), 256) and CHECK_LE(obj.normals.size(), 512).
kMaxObjVerts == 256
kMaxObjNormals == 512

\* CHECK_LE(cdo_data_str.size(), 20480).
kMaxCdoSize == 20480

\* Offsets in a Model::Header of unknown3[44], unknown4 and unknown5.
kUnknown3Offset == 16
kUnknown3Size == 44
kUnknown4Offset == 78
kUnknown5Offset == 79

\* Largest number of faces of an OBJ.
MaxFaces == 660

\* Model(): value-initialized, every byte of the header zero, no elements.
EmptyModel ==
  [header |-> Fill(kModelHeaderSize, 0), verts |-> <<>>, normals |-> <<>>,
   tris |-> <<>>, quads |-> <<>>, tex_tris |-> <<>>, tex_quads |-> <<>>]

\* unknown3[i] = 0 for i < 44, unknown4 = 0, unknown5 = 0.
ZeroedUnknown(header) ==
  [k \in 1..Len(header) |->
     IF \/ k - 1 \in kUnknown3Offset..(kUnknown3Offset + kUnknown3Size - 1)
        \/ k - 1 \in {kUnknown4Offset, kUnknown5Offset}
     THEN 0 ELSE header[k]]

\* std::reverse(obj.faces): a face is <<kind, position in the OBJ>>.
ReversedFaces(kinds) ==
  [i \in 1..Len(kinds) |-> <<kinds[Len(kinds) + 1 - i], Len(kinds) + 1 - i>>]

\* The faces lo..hi of one kind, in order (the four push_back of the loop
\* over o.faces).
RECURSIVE FacesOfKind(_, _, _, _)
FacesOfKind(fs, lo, hi, kind) ==
  IF lo > hi THEN <<>>
  ELSE IF lo = hi
    THEN IF fs[lo][1] = kind THEN <<fs[lo][2]>> ELSE <<>>
  ELSE FacesOfKind(fs, lo, (lo + hi) \div 2, kind)
         \o FacesOfKind(fs, ((lo + hi) \div 2) + 1, hi, kind)

\* The header UpdateFromObj leaves: scale and bounds of s, and the six
\* counts, each a uint16_t, of the sequences of m.
UpdatedHeader(header, m, s) ==
  WriteInts(<<Len(m.verts) % 65536, Len(m.normals) % 65536,
              Len(m.tris) % 65536, Len(m.quads) % 65536,
              U16(header, 8), U16(header, 10),
              Len(m.tex_tris) % 65536, Len(m.tex_quads) % 65536>>)
    \o SubSeq(header, 17, 60)
    \o WriteInts([k \in 1..4 |-> ToUnsigned(s.lo_bound[k], 16)])
    \o WriteInts([k \in 1..4 |-> ToUnsigned(s.hi_bound[k], 16)])
    \o WriteInts(<<s.scale>>)
    \o SubSeq(header, 79, 80)

\* The sequences UpdateFromObj builds from the OBJ o with reversed faces fs,
\* given the model s of its verts.
UpdatedSequences(o, fs, s) ==
  [verts |-> s.verts,
   normals |-> [i \in 1..o.normals |-> i],
   tris |-> FacesOfKind(fs, 1, Len(fs), "tri"),
   quads |-> FacesOfKind(fs, 1, Len(fs), "quad"),
   tex_tris |-> FacesOfKind(fs, 1, Len(fs), "tex_tri"),
   tex_quads |-> FacesOfKind(fs, 1, Len(fs), "tex_quad")]

\* The Model with the header h and the sequences q.
ModelOf(h, q) ==
  [header |-> h, verts |-> q.verts, normals |-> q.normals, tris |-> q.tris,
   quads |-> q.quads, tex_tris |-> q.tex_tris, tex_quads |-> q.tex_quads]

\* UpdateFromObj(o, m) for the scale code 'value' its loop stops at (below
\* 32), on a model whose header is 'header'.
UpdateFromObj(o, header, value) ==
  ModelOf(UpdatedHeader(header,
                        UpdatedSequences(o, ReversedFaces(o.faces),
                                         UpdatedModel(o.verts, value)),
                        UpdatedModel(o.verts, value)),
          UpdatedSequences(o, ReversedFaces(o.faces),
                           UpdatedModel(o.verts, value)))

\* The code the loop of UpdateFromObj stops at when it starts at 'start'.
StoppedAt(o, start) ==
  ScaleLoop(start, AbsMax(BoundLo(o.verts), BoundHi(o.verts)))

\* The CHECK that stops the conversion of the OBJ o, "none" if none does.
ConvertCheck(o, start) ==
  IF Len(o.verts) > kMaxObjVerts THEN "verts"
  ELSE IF o.normals > kMaxObjNormals THEN "normals"
  ELSE IF Len(o.verts) = 0 THEN "no_verts"
  ELSE IF StoppedAt(o, start) >= kNumScales THEN "scale"
  ELSE "none"

\* One pass of the loop over the LODs, i counted from 0, when no CHECK stops
\* it: the LOD is cleared, or converted from its OBJ.
ConvertLod(car, objs, i, start) ==
  [car EXCEPT !.lods[i + 1] =
     IF i >= Len(objs) THEN EmptyModel
     ELSE UpdateFromObj(objs[i + 1], ZeroedUnknown(car.lods[i + 1].header),
                        StoppedAt(objs[i + 1], start))]

\* cdo.padding and cdo.unknown1 set to zero.
ClearedUnknown(car) ==
  [car EXCEPT !.padding = [k \in 1..Len(car.padding) |-> 0],
              !.unknown1 = [k \in 1..Len(car.unknown1) |-> 0]]

\* The size of what CarObject::Serialize writes.
CdoSize(car) ==
  Len(car.header) + 2 * Len(car.padding) + 2 + 2 * Len(car.unknown1)
    + SumSeq([j \in 1..Len(car.lods) |-> ModelSize(car.lods[j])])
    + ShadowSize(car.shadow)

\* const int n = 16 of MakeWheel.
kWheelSegments == 16

\* The i_vert of the faces MakeWheel adds; 'vert' is m.verts.size() after the
\* two centers were added, and an index is stored in a uint8_t.
WheelFaces(vert, base_a, base_b, rings) ==
  [i \in 1..kWheelSegments |->
     IF rings = 0
     THEN <<(vert - 1) % 256, (vert + (i - 1)) % 256,
            (vert + (i % kWheelSegments)) % 256, 0>>
     ELSE <<(vert + base_a + (i - 1)) % 256,
            (vert + base_a + (i % kWheelSegments)) % 256,
            (vert + base_b + (i % kWheelSegments)) % 256,
            (vert + base_b + (i - 1)) % 256>>]

\* MakeWheel(pos, size, m): 2 + 4 * 16 verts, 16 textured triangles, 16
\* textured quads, 2 * 16 quads and 16 triangles are appended, the header is
\* not written.  pos and size give the coordinates of the verts, which are
\* left out: a vert is held as <<ring, place on the ring>>.
MakeWheel(m) ==
  [m EXCEPT
     !.verts = @ \o <<(<<"inside", 0>>), (<<"outside", 0>>)>>
                 \o [k \in 1..(4 * kWheelSegments) |->
                       <<(k - 1) \div kWheelSegments,
                         (k - 1) % kWheelSegments>>],
     !.tex_tris = @ \o WheelFaces(Len(m.verts) + 2, 0, 0, 0),
     !.tex_quads = @ \o WheelFaces(Len(m.verts) + 2, kWheelSegments, 0, 1),
     !.quads = @ \o WheelFaces(Len(m.verts) + 2, 2 * kWheelSegments,
                               kWheelSegments, 1)
                 \o WheelFaces(Len(m.verts) + 2, 3 * kWheelSegments,
                               2 * kWheelSegments, 1),
     !.tris = @ \o [i \in 1..kWheelSegments |->
                      <<(Len(m.verts) + 2 - 2) % 256,
                        (Len(m.verts) + 2 + 3 * kWheelSegments
                           + (i % kWheelSegments)) % 256,
                        (Len(m.verts) + 2 + 3 * kWheelSegments + (i - 1)) % 256,
                        0>>]]

\* The base files: no LOD or three LODs, each section of a LOD holding k
\* elements, and a file whose magic is wrong.
ToolShapes == {[sec \in Sections |-> k] : k \in 0..1}

ToolBase(n, c) == CarBytes(n, c, [i \in 1..c.normals |-> GoodNormal], 1)

ToolBases ==
  {ToolBase(n, c) : n \in {0, kPackedLods}, c \in ToolShapes}
  \cup {Corrupt(ToolBase(kPackedLods, c), "magic") : c \in ToolShapes}

\* The OBJ files.
SmallObj ==
  [verts |-> <<(<<1, -3, 2>>)>>, normals |-> 1,
   faces |-> <<"tri", "tex_quad", "tex_tri", "quad", "tex_tri">>]
LargeObj ==
  [verts |-> <<(<<0, 0, 0>>), (<<8192, 0, -5>>)>>, normals |-> 0,
   faces |-> [i \in 1..MaxFaces |-> "tex_tri"]]
MixedObj ==
  [verts |-> <<(<<0, 0, 0>>)>>, normals |-> 2,
   faces |-> [i \in 1..MaxFaces |->
                <<"tri", "quad", "tex_tri", "tex_quad">>[(i % 4) + 1]]]
NoVertsObj == [verts |-> <<>>, normals |-> 0, faces |-> <<"tri">>]
ManyVertsObj ==
  [verts |-> [i \in 1..(kMaxObjVerts + 1) |-> <<0, 0, 0>>], normals |-> 0,
   faces |-> <<>>]
ManyNormalsObj ==
  [verts |-> <<(<<0, 0, 0>>)>>, normals |-> kMaxObjNormals + 1,
   faces |-> <<"tex_quad">>]

FirstObjs ==
  {SmallObj, LargeObj, MixedObj, NoVertsObj, ManyVertsObj, ManyNormalsObj}
OtherObjs == {SmallObj, LargeObj}

\* obj_paths: the OBJ of LOD 0, and those found for LODs 1 and 2.
ObjLists ==
  {<<a>> : a \in FirstObjs}
  \cup {<<a, b>> : a \in FirstObjs, b \in OtherObjs}
  \cup {<<a, b, c>> : a \in FirstObjs, b \in OtherObjs, c \in OtherObjs}

\* The values tried for the "Scale16 scale;" of UpdateFromObj.
ScaleStarts == {0, 40}

\* The object the loop over the LODs leaves when every pass starts its scale
\* at 0 and no CHECK stops it.
RECURSIVE ConvertedFrom(_, _, _)
ConvertedFrom(car, objs, i) ==
  IF i = kPackedLods THEN car
  ELSE ConvertedFrom(ConvertLod(car, objs, i, 0), objs, i + 1)

\* The states in which the block that saves the cdo is entered: the cdp was
\* written, and the object is one the loop over the LODs leaves.
SaveStarts ==
  {[pc |-> "cdp_saved", base |-> b, objs |-> objs, i |-> kPackedLods,
    car |-> ConvertedFrom(ClearedUnknown(CarObjectFromStream(b).car), objs, 0),
    saved |-> {"cdp"}, why |-> "none"] :
     b \in {ToolBase(kPackedLods, c) : c \in ToolShapes},
     objs \in {o \in ObjLists :
                 \A j \in 1..Len(o) : ConvertCheck(o[j], 0) = "none"}}

ToolInit ==
  /\ tool \in [pc : {"packcdo"}, base : ToolBases, objs : ObjLists]
                \cup [pc : {"getobjs"}, base : ToolBases, objs : {<<>>}]
                \cup SaveStarts
  /\ quant = Idle /\ merge = Idle /\ codec = Idle /\ pix = Idle
  /\ bits = Idle /\ scale = Idle /\ raster = Idle
  /\ carpix = Idle /\ faces = Idle

\* A CHECK of PackCdo failed: the program exits.
ToolFailed(why) ==
  [pc |-> "failed", base |-> tool.base, objs |-> tool.objs, why |-> why,
   saved |-> IF tool.pc \in {"packcdo", "getobjs"} THEN {} ELSE tool.saved]

\* CarObject::FromStream(base_cdo_file), CHECK_GT(cdo.lods.size(), 0), and
\* the unknown areas set to zero.
ReadBaseCall ==
  /\ tool.pc = "packcdo"
  /\ tool' =
       IF ~CarObjectFromStream(tool.base).ok THEN ToolFailed("base")
       ELSE IF ~(Len(CarObjectFromStream(tool.base).car.lods) > 0)
         THEN ToolFailed("no_lods")
       ELSE [pc |-> "lods", base |-> tool.base, objs |-> tool.objs, i |-> 0,
             car |-> ClearedUnknown(CarObjectFromStream(tool.base).car),
             saved |-> {}, why |-> "none"]
  /\ UNCHANGED <<quant, merge, codec, pix, bits, scale, raster,
                 carpix, faces>>

\* One pass of the loop over the LODs.
ConvertLodCall ==
  /\ tool.pc = "lods"
  /\ tool.i < kPackedLods
  /\ \E start \in ScaleStarts :
       tool' =
         IF tool.i < Len(tool.objs)
              /\ ConvertCheck(tool.objs[tool.i + 1], start) # "none"
         THEN ToolFailed(ConvertCheck(tool.objs[tool.i + 1], start))
         ELSE [tool EXCEPT !.i = @ + 1,
                           !.car = ConvertLod(tool.car, tool.objs, tool.i,
                                              start)]
  /\ UNCHANGED <<quant, merge, codec, pix, bits, scale, raster,
                 carpix, faces>>

\* PackCarPixData, and the block that saves the cdp: CarPix::Serialize
\* checks the size of the buffer PackCarPixData leaves.
SaveCdpCall ==
  /\ tool.pc = "lods"
  /\ tool.i = kPackedLods
  /\ tool' =
       IF (kCarPixWidth * kCarPixHeight) \div 2 # kPixelBytes
       THEN ToolFailed("cdp_data")
       ELSE [tool EXCEPT !.pc = "cdp_saved", !.saved = @ \cup {"cdp"}]
  /\ UNCHANGED <<quant, merge, codec, pix, bits, scale, raster,
                 carpix, faces>>

\* The block that saves the cdo: Serialize, Save, and then the CHECK_LE of
\* the size.
SaveCdoCall ==
  /\ tool.pc = "cdp_saved"
  /\ tool' = [tool EXCEPT
                !.pc = IF CdoSize(tool.car) <= kMaxCdoSize THEN "done"
                       ELSE "failed",
                !.why = IF CdoSize(tool.car) <= kMaxCdoSize THEN "none"
                        ELSE "too_large",
                !.saved = @ \cup {"cdo"}]
  /\ UNCHANGED <<quant, merge, codec, pix, bits, scale, raster,
                 carpix, faces>>

\* GetObjs: CarObject::FromStream(cdo_file).
GetObjsReadCall ==
  /\ tool.pc = "getobjs"
  /\ tool' =
       IF ~CarObjectFromStream(tool.base).ok THEN ToolFailed("base")
       ELSE [pc |-> "wheels", base |-> tool.base, objs |-> tool.objs,
             car |-> CarObjectFromStream(tool.base).car, wheels |-> <<>>]
  /\ UNCHANGED <<quant, merge, codec, pix, bits, scale, raster,
                 carpix, faces>>

\* SaveObj: wheels.push_back({}) and MakeWheel on it, four times.
MakeWheelCall ==
  /\ tool.pc = "wheels"
  /\ Len(tool.wheels) < 4
  /\ tool' = [tool EXCEPT !.wheels = Append(@, MakeWheel(EmptyModel))]
  /\ UNCHANGED <<quant, merge, codec, pix, bits, scale, raster,
                 carpix, faces>>

\* Model::Serialize(out) on a Model the program holds: a LOD of the decoded
\* object or a wheel.  It writes header and sequences, and checks nothing.
ModelSerializeCall ==
  /\ tool.pc = "wheels"
  /\ \E m \in {tool.car.lods[j] : j \in 1..Len(tool.car.lods)}
                \cup {tool.wheels[j] : j \in 1..Len(tool.wheels)} :
       tool' = [pc |-> "model_written", base |-> tool.base,
                objs |-> tool.objs, model |-> m, size |-> ModelSize(m)]
  /\ UNCHANGED <<quant, merge, codec, pix, bits, scale, raster,
                 carpix, faces>>

ToolNext ==
  \/ ReadBaseCall \/ ConvertLodCall \/ SaveCdpCall \/ SaveCdoCall
  \/ GetObjsReadCall \/ MakeWheelCall \/ ModelSerializeCall

SpecTool == ToolInit /\ [][ToolNext]_vars

\* The object CarObject::FromStream decoded from the base file.
BaseCar == CarObjectFromStream(tool.base).car

\* unknown3, unknown4 and unknown5 of a Model::Header.
UnknownRegions(header) ==
  <<SubSeq(header, kUnknown3Offset + 1, kUnknown3Offset + kUnknown3Size),
    header[kUnknown4Offset + 1], header[kUnknown5Offset + 1]>>

\* C14: in the CarObject that PackCdo hands to Serialize, the 13 unknown
\* words of the CarObject, and in each Model header the 44-byte unknown
\* region and the two trailing unknown bytes, are those of the base file.
C14_UnknownCarried ==
  (tool.pc = "lods" /\ tool.i = kPackedLods) =>
    /\ tool.car.unknown1 = BaseCar.unknown1
    /\ \A j \in 1..Len(tool.car.lods) :
         UnknownRegions(tool.car.lods[j].header)
           = UnknownRegions(BaseCar.lods[j].header)

CountsMatch(m) ==
  /\ U16(m.header, 0) = Len(m.verts)
  /\ U16(m.header, 2) = Len(m.normals)
  /\ U16(m.header, 4) = Len(m.tris)
  /\ U16(m.header, 6) = Len(m.quads)
  /\ U16(m.header, 12) = Len(m.tex_tris)
  /\ U16(m.header, 14) = Len(m.tex_quads)

\* The counts match in every Model that was decoded, converted from an OBJ
\* or cleared.
LodCountsMatch ==
  tool.pc \in {"lods", "cdp_saved", "done", "wheels"} =>
    \A j \in 1..Len(tool.car.lods) : CountsMatch(tool.car.lods[j])

\* C16: in every Model the program holds (decoded by Model::FromStream,
\* converted by UpdateFromObj, cleared, or given a wheel by MakeWheel) the
\* six counts of the header are the lengths of the sequences.
C16_CountsMatch ==
  /\ LodCountsMatch
  /\ tool.pc = "wheels" =>
       \A j \in 1..Len(tool.wheels) : CountsMatch(tool.wheels[j])

\* C17: Model::Serialize writes a Model only if the six counts of its header
\* are the lengths of its sequences.
C17_EncodeChecksCounts ==
  tool.pc = "model_written" => CountsMatch(tool.model)

-----------------------------------------------------------------------------
(* The faces of a Model: TransferNormals (car_to_obj.h), the palette        *)
(* selector of a TexFace (car.h) and AssignPaletteIndicesToFaces            *)
(* (car_from_obj.h).  A face is held as i_vert, the four vertex indices     *)
(* that make up i_vert_data, data_a, data_b, the halves of data_c, and      *)
(* pal_data.                                                                *)

\* Largest number of faces handed to TransferNormals.
MaxTexFaces == 3
\* Largest number of textured triangles, and of textured quads, of a Model
\* handed to AssignPaletteIndicesToFaces, and of palettes.
MaxPerKind == 2
MaxFacePalettes == 2

\* LowBits<5, uint16_t>(), the mask of flags A.
kFlagsAMask == 31
\* The mask of set_i_palette, 0xC3.
kPaletteMask == 195

\* Face::flags_b and Face::has_normals.
Face_flags_b(f) == UnpackUnsigned(4, 12, f.data_b) % 256
Face_has_normals(f) == ShiftRight(Face_flags_b(f), 3) # 0

\* Face::CopyNormalIndicesFrom(f) on the face t.
CopyNormalIndicesFrom(t, f) ==
  [t EXCEPT
     !.data_a = BitOr(BitAnd(t.data_a, kFlagsAMask),
                      BitAnd(f.data_a, 65535 - kFlagsAMask)),
     !.data_b = f.data_b,
     !.data_c = f.data_c]

\* A need_normals that keeps the first face without normals of each key.
NeedNormalsFirst(fs) ==
  [key \in {fs[i].i_vert : i \in {j \in 1..Len(fs) : ~Face_has_normals(fs[j])}}
     |-> CHOOSE i \in 1..Len(fs) :
           /\ fs[i].i_vert = key /\ ~Face_has_normals(fs[i])
           /\ \A j \in 1..Len(fs) :
                (fs[j].i_vert = key /\ ~Face_has_normals(fs[j])) => i <= j]

\* for (f : faces) if (!f.has_normals()) need_normals[f.i_vert_data] = &f:
\* each key is left with the last face without normals that has it.
NeedNormals(fs) ==
  [key \in {fs[i].i_vert : i \in {j \in 1..Len(fs) : ~Face_has_normals(fs[j])}}
     |-> CHOOSE i \in 1..Len(fs) :
           /\ fs[i].i_vert = key /\ ~Face_has_normals(fs[i])
           /\ \A j \in 1..Len(fs) :
                (fs[j].i_vert = key /\ ~Face_has_normals(fs[j])) => j <= i]

\* The second loop of TransferNormals, at face i: a face with normals whose
\* key is in need_normals gives them to the face stored there, and the key
\* is erased.
RECURSIVE TransferLoop(_, _, _)
TransferLoop(fs, need, i) ==
  IF i > Len(fs) THEN fs
  ELSE IF Face_has_normals(fs[i]) /\ fs[i].i_vert \in DOMAIN need
    THEN TransferLoop(
           [fs EXCEPT ![need[fs[i].i_vert]] = CopyNormalIndicesFrom(@, fs[i])],
           [key \in DOMAIN need \ {fs[i].i_vert} |-> need[key]],
           i + 1)
  ELSE TransferLoop(fs, need, i + 1)

\* TransferNormals(faces).
TransferNormals(fs) == TransferLoop(fs, NeedNormals(fs), 1)

\* A set_i_palette without the mask.
SetPaletteUnmasked(i) == BitOr(ShiftLeft(i, 4), i) % 65536

\* TexFace::set_i_palette(i) for a uint8_t i: the new pal_data.
TexFace_set_i_palette(i) ==
  BitAnd(BitOr(ShiftLeft(i, 4), i), kPaletteMask) % 65536

\* TexFace::i_palette() on pal_data.
TexFace_i_palette(pal_data) ==
  BitAnd(BitOr(ShiftRight(pal_data, 4), pal_data), 15) % 256

\* A first loop that leaves the selectors as they are.
KeepSelectors(fs) == fs

\* for (f : faces) f.set_i_palette(0).
ResetSelectors(fs) ==
  [k \in 1..Len(fs) |-> [fs[k] EXCEPT !.pal_data = TexFace_set_i_palette(0)]]

\* The inner loop for one palette: every face id of face_index gets the
\* selector 'value' (an int converted to uint8_t), ids below num_tex_tris in
\* tex_tris, the others in tex_quads.
AssignPalette(m, face_index, value) ==
  [tex_tris |->
     [k \in 1..Len(m.tex_tris) |->
        IF k - 1 \in face_index
        THEN [m.tex_tris[k] EXCEPT
                !.pal_data = TexFace_set_i_palette(value % 256)]
        ELSE m.tex_tris[k]],
   tex_quads |->
     [k \in 1..Len(m.tex_quads) |->
        IF k - 1 + Len(m.tex_tris) \in face_index
        THEN [m.tex_quads[k] EXCEPT
                !.pal_data = TexFace_set_i_palette(value % 256)]
        ELSE m.tex_quads[k]]]

\* The loop over the palettes, i counted from 1.
RECURSIVE AssignLoop(_, _, _, _)
AssignLoop(m, palettes, first_palette_index, i) ==
  IF i > Len(palettes) THEN m
  ELSE AssignLoop(AssignPalette(m, palettes[i], first_palette_index + i - 1),
                  palettes, first_palette_index, i + 1)

\* AssignPaletteIndicesToFaces(palettes, first_palette_index, m).
AssignPaletteIndicesToFaces(palettes, first_palette_index, m) ==
  AssignLoop([tex_tris |-> ResetSelectors(m.tex_tris),
              tex_quads |-> ResetSelectors(m.tex_quads)],
             palettes, first_palette_index, 1)

\* The faces handed to TransferNormals: two keys, with the normal indices
\* 5, 6, 7 or 300, 9, 511, 1, or without normals, and two values of flags A.
NormalFace(i_vert, flags_a, n) ==
  [i_vert |-> i_vert,
   data_a |-> Face_set_i_normals(flags_a, <<0, 0>>,
                                 n[1], n[2], n[3], n[4]).data_a,
   data_b |-> 32768,
   data_c |-> Face_set_i_normals(flags_a, <<0, 0>>,
                                 n[1], n[2], n[3], n[4]).data_c,
   pal_data |-> 65]

PlainFace(i_vert, flags_a) ==
  [i_vert |-> i_vert, data_a |-> flags_a, data_b |-> 0, data_c |-> <<0, 0>>,
   pal_data |-> 1]

TransferFaces ==
  {NormalFace(<<1, 2, 3, 0>>, 16, <<5, 6, 7, 0>>),
   NormalFace(<<1, 2, 3, 0>>, 17, <<300, 9, 511, 1>>),
   PlainFace(<<1, 2, 3, 0>>, 16),
   PlainFace(<<1, 2, 3, 0>>, 28),
   NormalFace(<<3, 2, 1, 0>>, 16, <<300, 9, 511, 1>>),
   PlainFace(<<3, 2, 1, 0>>, 16)}

\* The models handed to AssignPaletteIndicesToFaces: face k holds the
\* selector k + 1 before the call; each face id is in at most one palette,
\* as ExtractFacePalettes and MergePalettes leave them.
SelectorFaces(n, from) ==
  [k \in 1..n |->
     [PlainFace(<<k, 2, 3, 0>>, 16) EXCEPT
        !.pal_data = TexFace_set_i_palette(from + k)]]

FaceSets(n, count) ==
  {[i \in 1..count |-> {k \in 0..(n - 1) : owner[k] = i}] :
     owner \in [0..(n - 1) -> 0..count]}

AssignInputs ==
  UNION {[pc : {"assign"},
          m : {[tex_tris |-> SelectorFaces(t, 0),
                tex_quads |-> SelectorFaces(q, t)]},
          palettes : FaceSets(t + q, count),
          first : {0, 1, 3, 14, 15}] :
         t \in 0..MaxPerKind, q \in 0..MaxPerKind,
         count \in 0..MaxFacePalettes}

FacesInit ==
  /\ faces \in [pc : {"transfer"},
               input : UNION {[1..n -> TransferFaces] : n \in 0..MaxTexFaces}]
               \cup AssignInputs
               \cup [pc : {"selector"}, i : 0..255]
  /\ quant = Idle /\ merge = Idle /\ codec = Idle /\ pix = Idle
  /\ bits = Idle /\ scale = Idle /\ raster = Idle
  /\ carpix = Idle /\ tool = Idle

\* WriteObj: TransferNormals(tex_tris) and TransferNormals(tex_quads).
TransferNormalsCall ==
  /\ faces.pc = "transfer"
  /\ faces' = [pc |-> "transferred", input |-> faces.input,
               output |-> TransferNormals(faces.input)]
  /\ UNCHANGED <<quant, merge, codec, pix, bits, scale, raster,
                 carpix, tool>>

\* PackCdo: AssignPaletteIndicesToFaces(texpal.palettes,
\* first_palette_index, m).
AssignPaletteIndicesCall ==
  /\ faces.pc = "assign"
  /\ faces' = [pc |-> "assigned", before |-> faces.m,
               palettes |-> faces.palettes, first |-> faces.first,
               m |-> AssignPaletteIndicesToFaces(faces.palettes, faces.first,
                                                 faces.m)]
  /\ UNCHANGED <<quant, merge, codec, pix, bits, scale, raster,
                 carpix, tool>>

\* f.set_i_palette(i) followed by f.i_palette().
SetPaletteCall ==
  /\ faces.pc = "selector"
  /\ faces' = [pc |-> "selected", i |-> faces.i,
               pal_data |-> TexFace_set_i_palette(faces.i),
               read |-> TexFace_i_palette(TexFace_set_i_palette(faces.i))]
  /\ UNCHANGED <<quant, merge, codec, pix, bits, scale, raster,
                 carpix, tool>>

FacesNext ==
  TransferNormalsCall \/ AssignPaletteIndicesCall \/ SetPaletteCall

SpecFaces == FacesInit /\ [][FacesNext]_vars

\* The normal indices a face reads back.
NormalIndices(f) ==
  [n \in 1..4 |-> Face_i_normal(n - 1, f.data_a, f.data_c)]

\* Face i of the sequence fs is the first with normals among those with its
\* vertex-index word.
FirstWithNormals(fs, i) ==
  /\ Face_has_normals(fs[i])
  /\ \A j \in 1..(i - 1) :
       ~(fs[j].i_vert = fs[i].i_vert /\ Face_has_normals(fs[j]))

\* Face i of the sequence fs is the last without normals among those with
\* its vertex-index word.
LastWithoutNormals(fs, i) ==
  /\ ~Face_has_normals(fs[i])
  /\ \A j \in (i + 1)..Len(fs) :
       ~(fs[j].i_vert = fs[i].i_vert /\ ~Face_has_normals(fs[j]))

\* C18 as claimed: after TransferNormals every face without normals that
\* stands after the first face with normals of its vertex-index word has
\* normals and reads back the normal indices of that face.
C18_AllLaterFaces ==
  faces.pc = "transferred" =>
    \A d \in 1..Len(faces.input) : \A r \in (d + 1)..Len(faces.input) :
      (/\ FirstWithNormals(faces.input, d)
       /\ faces.input[r].i_vert = faces.input[d].i_vert
       /\ ~Face_has_normals(faces.input[r]))
      => /\ Face_has_normals(faces.output[r])
         /\ NormalIndices(faces.output[r]) = NormalIndices(faces.input[d])

\* C18: for each vertex-index word, the first face with normals gives its
\* normal indices to one face, the last face of the sequence with that word
\* that has no normals, before or after the giver; that face then has
\* normals, reads back the giver's normal indices and keeps its flags A, its
\* vertex indices and its selector; every other face is left as it was.
C18_LastFaceOnly ==
  faces.pc = "transferred" =>
    /\ Len(faces.output) = Len(faces.input)
    /\ \A r \in 1..Len(faces.input) :
         IF /\ LastWithoutNormals(faces.input, r)
            /\ \E d \in 1..Len(faces.input) :
                 /\ FirstWithNormals(faces.input, d)
                 /\ faces.input[d].i_vert = faces.input[r].i_vert
         THEN \E d \in 1..Len(faces.input) :
                /\ FirstWithNormals(faces.input, d)
                /\ faces.input[d].i_vert = faces.input[r].i_vert
                /\ Face_has_normals(faces.output[r])
                /\ NormalIndices(faces.output[r])
                     = NormalIndices(faces.input[d])
                /\ faces.output[r].data_b = faces.input[d].data_b
                /\ faces.output[r].data_c = faces.input[d].data_c
                /\ BitAnd(faces.output[r].data_a, kFlagsAMask)
                     = BitAnd(faces.input[r].data_a, kFlagsAMask)
                /\ faces.output[r].i_vert = faces.input[r].i_vert
                /\ faces.output[r].pal_data = faces.input[r].pal_data
         ELSE faces.output[r] = faces.input[r]

\* Of two faces without normals after a face with normals, all of one
\* vertex-index word, the last one got the normals and the other did not.
C18_Witness ==
  /\ faces.pc = "transferred"
  /\ Len(faces.input) = 3
  /\ \A i \in 1..3 : faces.input[i].i_vert = <<1, 2, 3, 0>>
  /\ Face_has_normals(faces.input[1])
  /\ ~Face_has_normals(faces.input[2])
  /\ ~Face_has_normals(faces.input[3])
  /\ NormalIndices(faces.output[3]) = <<300, 9, 511, 1>>
  /\ faces.output[2] = faces.input[2]

\* The textured face with face id k of the model m: tex_tris first, then
\* tex_quads.
TexturedFace(m, id) ==
  IF id < Len(m.tex_tris) THEN m.tex_tris[id + 1]
  ELSE m.tex_quads[id - Len(m.tex_tris) + 1]

\* C19: after AssignPaletteIndicesToFaces(palettes, firstIndex, model) a
\* textured face whose id is in the face set of the palette at position i
\* reads back the selector firstIndex + i when that is at most 15, and a
\* textured face in no face set reads back 0, whatever it held before; the
\* numbers of faces are as before.
C19_SelectorsAssigned ==
  faces.pc = "assigned" =>
    /\ Len(faces.m.tex_tris) = Len(faces.before.tex_tris)
    /\ Len(faces.m.tex_quads) = Len(faces.before.tex_quads)
    /\ \A id \in 0..(Len(faces.m.tex_tris) + Len(faces.m.tex_quads) - 1) :
         /\ \A i \in 0..(Len(faces.palettes) - 1) :
              (id \in faces.palettes[i + 1] /\ faces.first + i <= 15)
              => TexFace_i_palette(TexturedFace(faces.m, id).pal_data)
                   = faces.first + i
         /\ (\A i \in 1..Len(faces.palettes) : id \notin faces.palettes[i])
            => TexFace_i_palette(TexturedFace(faces.m, id).pal_data) = 0

\* A triangle that held the selector 1 and is in no face set reads 0, and a
\* quad in the face set of the second palette reads 4 after a call with
\* firstIndex 3.
C19_Witness ==
  /\ faces.pc = "assigned"
  /\ faces.first = 3
  /\ Len(faces.palettes) = 2
  /\ Len(faces.m.tex_tris) = 2 /\ Len(faces.m.tex_quads) = 2
  /\ \A i \in 1..2 : 0 \notin faces.palettes[i]
  /\ TexFace_i_palette(faces.before.tex_tris[1].pal_data) = 1
  /\ TexFace_i_palette(faces.m.tex_tris[1].pal_data) = 0
  /\ 3 \in faces.palettes[2]
  /\ TexFace_i_palette(faces.before.tex_quads[2].pal_data) = 4
  /\ TexFace_i_palette(faces.m.tex_quads[2].pal_data) = 4
  /\ 2 \in faces.palettes[1]
  /\ TexFace_i_palette(faces.m.tex_quads[1].pal_data) = 3

\* C20: for a selector i of 0..15, set_i_palette(i) leaves i div 4 in bits
\* 7-6 and i mod 4 in bits 1-0 of pal_data and every other bit zero,
\* i_palette() then returns i, and storing what was read gives the same
\* field again.
C20_SelectorBits ==
  (faces.pc = "selected" /\ faces.i <= 15) =>
    /\ faces.pal_data = (faces.i \div 4) * 64 + (faces.i % 4)
    /\ UnpackUnsigned(2, 6, faces.pal_data) = faces.i \div 4
    /\ UnpackUnsigned(2, 0, faces.pal_data) = faces.i % 4
    /\ faces.read = faces.i
    /\ TexFace_set_i_palette(faces.read) = faces.pal_data

\* The selector 13 is stored as 0xC1 and read back as 13.
C20_Witness ==
  /\ faces.pc = "selected"
  /\ faces.i = 13
  /\ faces.pal_data = 193
  /\ faces.read = 13

-----------------------------------------------------------------------------
(* RgbaToColor16 (car_from_obj.h) on single pixels.                         *)

\* Channel values of a texture pixel: zero, the values below and at the
\* first 5-bit step, and large ones.
ChannelSamples == {0, 1, 7, 8, 128, 255}
AlphaSamples == {0, 1, 255}

ColorInit ==
  /\ raster \in [pc : {"rgba"}, r : ChannelSamples, g : ChannelSamples,
                 b : ChannelSamples, a : AlphaSamples]
  /\ quant = Idle /\ merge = Idle /\ codec = Idle /\ pix = Idle
  /\ bits = Idle /\ scale = Idle
  /\ carpix = Idle /\ tool = Idle /\ faces = Idle

\* RgbaToColor16(r, g, b, a) returns.
RgbaToColor16Call ==
  /\ raster.pc = "rgba"
  /\ raster' = [pc |-> "converted", r |-> raster.r, g |-> raster.g,
                b |-> raster.b, a |-> raster.a,
                color |-> RgbaToColor16(raster.r, raster.g, raster.b,
                                        raster.a)]
  /\ UNCHANGED <<quant, merge, codec, pix, bits, scale,
                 carpix, tool, faces>>

ColorNext == RgbaToColor16Call

SpecColor == ColorInit /\ [][ColorNext]_vars

\* Color16::opaque().
Color16_opaque(c) == c # 0

\* C21: RgbaToColor16 gives the transparent colour (the word 0) for alpha 0
\* and an opaque colour (a word other than 0) for any other alpha, with the
\* force-opaque bit set exactly when r = g = b = 0.
C21_TransparencyRule ==
  raster.pc = "converted" =>
    IF raster.a = 0 THEN raster.color = 0
    ELSE /\ Color16_opaque(raster.color)
         /\ force_opaque(raster.color) = 1
              <=> (raster.r = 0 /\ raster.g = 0 /\ raster.b = 0)

\* What holds of the conversion: alpha 0 gives the word 0, black with
\* another alpha gives the force-opaque bit alone, and any other pixel gives
\* its 5-bit channels without the bit, which is the word 0 when r, g and b
\* are all below 8.
RgbaConversion ==
  raster.pc = "converted" =>
    /\ raster.a = 0 => raster.color = 0
    /\ (raster.a # 0 /\ raster.r = 0 /\ raster.g = 0 /\ raster.b = 0)
         => raster.color = 32768
    /\ (raster.a # 0 /\ ~(raster.r = 0 /\ raster.g = 0 /\ raster.b = 0))
         => /\ raster.color = (raster.r \div 8) + 32 * (raster.g \div 8)
                              + 1024 * (raster.b \div 8)
            /\ force_opaque(raster.color) = 0
            /\ Color16_opaque(raster.color)
                 <=> (raster.r >= 8 \/ raster.g >= 8 \/ raster.b >= 8)

\* The pixel (1, 7, 1) with alpha 255 was converted to the word 0.
DarkPixelTransparent ==
  /\ raster.pc = "converted"
  /\ raster.r = 1 /\ raster.g = 7 /\ raster.b = 1 /\ raster.a = 255
  /\ raster.color = 0

-----------------------------------------------------------------------------
(* ComputePaletteDist (util/color.h) on pairs of palettes.                  *)

\* Largest number of colours of a palette handed to ComputePaletteDist.
MaxDistColors == 3

\* Colours of the palettes: transparent, three reds and forced-opaque black.
DistColorSamples == {0, 1, 2, 31, 32768}

\* A palette is a colour -> count map; the counts play no part.
DistPalettes ==
  {[c \in S |-> 1] :
     S \in {T \in SUBSET DistColorSamples : Cardinality(T) <= MaxDistColors}}

PaletteDistInit ==
  /\ merge \in [pc : {"pair"}, a : DistPalettes, b : DistPalettes]
  /\ quant = Idle /\ codec = Idle /\ pix = Idle /\ bits = Idle
  /\ scale = Idle /\ raster = Idle
  /\ carpix = Idle /\ tool = Idle /\ faces = Idle

\* ComputePaletteDist(a, b) returns.
ComputePaletteDistCall ==
  /\ merge.pc = "pair"
  /\ merge' = [pc |-> "measured", a |-> merge.a, b |-> merge.b,
               out |-> ComputePaletteDist(merge.a, merge.b)]
  /\ UNCHANGED <<quant, codec, pix, bits, scale, raster,
                 carpix, tool, faces>>

\* ComputePaletteDist(b, a) returns, after ComputePaletteDist(a, b).
ComputePaletteDistSwappedCall ==
  /\ merge.pc = "measured"
  /\ merge' = [pc |-> "measured_both", a |-> merge.a, b |-> merge.b,
               out |-> merge.out,
               swapped |-> ComputePaletteDist(merge.b, merge.a)]
  /\ UNCHANGED <<quant, codec, pix, bits, scale, raster,
                 carpix, tool, faces>>

PaletteDistNext == ComputePaletteDistCall \/ ComputePaletteDistSwappedCall

SpecPaletteDist == PaletteDistInit /\ [][PaletteDistNext]_vars

\* The smallest squared distance of the colour c to a colour of the set L.
MinDistSq(c, L) ==
  CHOOSE v \in {ColorDistSq(c, d) : d \in L} :
    \A w \in {ColorDistSq(c, d) : d \in L} : v <= w

\* The sum, over the colours of the set S, of the smallest squared distance
\* to a colour of the set L.
SumMinDistSq(S, L) == MapSum([c \in S |-> MinDistSq(c, L)])

\* The sum of C25 for the colour sets A and B: over the colours of the
\* smaller set (of A, when the two have the same size).
SmallerToLarger(A, B) ==
  IF Cardinality(A) > Cardinality(B) THEN SumMinDistSq(B, A)
  ELSE SumMinDistSq(A, B)

\* C25: ComputePaletteDist(a, b) returns as sum_sq_dist the sum, over the
\* colours of the smaller palette, of the smallest squared distance to a
\* colour of the larger palette, which is zero exactly when the colours of
\* one palette are a subset of those of the other; union_size is the number
\* of distinct colours of the two palettes together, in either argument
\* order.
C25_PaletteDist ==
  /\ merge.pc \in {"measured", "measured_both"} =>
       /\ merge.out.sum_sq_dist
            = SmallerToLarger(DOMAIN merge.a, DOMAIN merge.b)
       /\ merge.out.sum_sq_dist = 0
            <=> (\/ DOMAIN merge.a \subseteq DOMAIN merge.b
                 \/ DOMAIN merge.b \subseteq DOMAIN merge.a)
       /\ merge.out.union_size
            = Cardinality(DOMAIN merge.a \cup DOMAIN merge.b)
  /\ merge.pc = "measured_both" =>
       /\ merge.swapped.union_size = merge.out.union_size
       /\ merge.swapped.sum_sq_dist
            = SmallerToLarger(DOMAIN merge.b, DOMAIN merge.a)
       /\ merge.swapped.sum_sq_dist = 0 <=> merge.out.sum_sq_dist = 0

\* The palettes {1, 2} and {1, 31, forced-opaque black} are at distance 1
\* and have 4 colours together, in both orders.
C25_Witness ==
  /\ merge.pc = "measured_both"
  /\ DOMAIN merge.a = {1, 2}
  /\ DOMAIN merge.b = {1, 31, 32768}
  /\ merge.out = [sum_sq_dist |-> 1, union_size |-> 4]
  /\ merge.swapped = merge.out

\* Two palettes of the same size, neither a subset of the other, measured
\* in both orders with different sums.
SumDependsOnOrder ==
  /\ merge.pc = "measured_both"
  /\ DOMAIN merge.a = {1, 2}
  /\ DOMAIN merge.b = {1, 31}
  /\ merge.out.sum_sq_dist = 1
  /\ merge.swapped.sum_sq_dist = 841

-----------------------------------------------------------------------------
(* DrawLine (util/image.h), one turn of its loop at a time, on endpoints    *)
(* with 8-bit coordinates.                                                  *)

\* The coordinates of the endpoints are within LineSpan of 0 or of 255, or
\* in the middle.
LineSpan == 1

CoordSamples == (0..LineSpan) \cup {100} \cup ((255 - LineSpan)..255)

LineInit ==
  /\ raster \in [pc : {"line"}, from : CoordSamples \X CoordSamples,
                 b : CoordSamples \X CoordSamples]
  /\ quant = Idle /\ merge = Idle /\ codec = Idle /\ pix = Idle
  /\ bits = Idle /\ scale = Idle
  /\ carpix = Idle /\ tool = Idle /\ faces = Idle

\* DrawLine(a, b, result) is entered: dx, sx, dy, sy and err are set.
DrawLineEnter ==
  /\ raster.pc = "line"
  /\ raster' = [pc |-> "walk", from |-> raster.from, b |-> raster.b,
                a |-> raster.from,
                dx |-> Abs(raster.b[1] - raster.from[1]),
                sx |-> IF raster.from[1] < raster.b[1] THEN 1 ELSE -1,
                dy |-> -Abs(raster.b[2] - raster.from[2]),
                sy |-> IF raster.from[2] < raster.b[2] THEN 1 ELSE -1,
                err |-> Abs(raster.b[1] - raster.from[1])
                          - Abs(raster.b[2] - raster.from[2]),
                visited |-> 0, first |-> raster.from, prev |-> raster.from,
                last |-> raster.from]
  /\ UNCHANGED <<quant, merge, codec, pix, bits, scale,
                 carpix, tool, faces>>

\* One turn of while (true) that does not break: result.Set(a), then the
\* step.  first, prev and last are the first pixel handed to Set, the one
\* before the last, and the last.
DrawLineTurn ==
  /\ raster.pc = "walk"
  /\ raster.a # raster.b
  /\ raster' = [raster EXCEPT
                 !.visited = @ + 1,
                 !.first = IF raster.visited = 0 THEN raster.a ELSE @,
                 !.prev = raster.last,
                 !.last = raster.a,
                 !.a = LineStep(raster.a, 2 * raster.err, raster.dx,
                                raster.sx, raster.dy, raster.sy),
                 !.err = ErrStep(raster.err, 2 * raster.err, raster.dx,
                                 raster.dy)]
  /\ UNCHANGED <<quant, merge, codec, pix, bits, scale,
                 carpix, tool, faces>>

\* The last turn: result.Set(a); if (a == b) break.
DrawLineBreak ==
  /\ raster.pc = "walk"
  /\ raster.a = raster.b
  /\ raster' = [raster EXCEPT
                 !.pc = "returned",
                 !.visited = @ + 1,
                 !.first = IF raster.visited = 0 THEN raster.a ELSE @,
                 !.prev = raster.last,
                 !.last = raster.a]
  /\ UNCHANGED <<quant, merge, codec, pix, bits, scale,
                 carpix, tool, faces>>

LineNext == DrawLineEnter \/ DrawLineTurn \/ DrawLineBreak

\* The loop keeps running while it has not returned.
SpecLine == LineInit /\ [][LineNext]_vars /\ WF_vars(LineNext)

\* The pixel v lies in the bounding box of the endpoints.
InBox(v) ==
  /\ Min(raster.from[1], raster.b[1]) <= v[1]
  /\ v[1] <= Max(raster.from[1], raster.b[1])
  /\ Min(raster.from[2], raster.b[2]) <= v[2]
  /\ v[2] <= Max(raster.from[2], raster.b[2])

\* What holds of the pixels handed to Set so far.
LineWalkSafe ==
  /\ (raster.pc \in {"walk", "returned"} /\ raster.visited >= 1) =>
       /\ raster.first = raster.from
       /\ InBox(raster.last)
  /\ (raster.pc \in {"walk", "returned"} /\ raster.visited >= 2) =>
       /\ raster.last # raster.prev
       /\ Abs(raster.last[1] - raster.prev[1]) <= 1
       /\ Abs(raster.last[2] - raster.prev[2]) <= 1
  /\ raster.pc = "returned" => raster.last = raster.b

\* C30: for endpoints a and b with coordinates in 0..255 DrawLine returns;
\* it visits a first and b last, every pixel it visits lies in the bounding
\* box of a and b, and successive pixels differ by at most 1 in each
\* coordinate.
C30_LineTerminates == []LineWalkSafe /\ <>(raster.pc = "returned")

\* The line from (0, 255) to (255, 0) returned after 256 pixels.
C30_Witness ==
  /\ raster.pc = "returned"
  /\ raster.from = <<0, 255>> /\ raster.b = <<255, 0>>
  /\ raster.visited = 256
  /\ raster.prev = <<254, 1>>

-----------------------------------------------------------------------------
(* Image::GrowBorders (util/image.h), called again while it returns true.   *)
(* An image is held as its pixels in row order; the mask is an image of     *)
(* the same size.                                                           *)

\* Size of the images handed to GrowBorders.
GrowWidth == 3
GrowHeight == 3
\* Largest number of pixels assigned before the first pass.
MaxSeeds == 3

\* at(x, y) of an image of width w held as the sequence s.
PixelAt(s, w, x, y) == s[x + y * w + 1]

\* A pick that does not look at mask.at(x, y).
PickAssigned(g, w, x, y, dx, dy) ==
  IF PixelAt(g.mask, w, x + dx, y + dy) > 0
  THEN [im |-> [g.im EXCEPT ![x + y * w + 1] =
                  PixelAt(g.im, w, x + dx, y + dy)],
        mask |-> [g.mask EXCEPT ![x + y * w + 1] = 255],
        changed |-> TRUE]
  ELSE g

\* The lambda pick(x, y, dx, dy) of GrowBorders on the image, the mask and
\* the flag 'changed'.
Pick(g, w, x, y, dx, dy) ==
  IF PixelAt(g.mask, w, x, y) = 0 /\ PixelAt(g.mask, w, x + dx, y + dy) > 0
  THEN [im |-> [g.im EXCEPT ![x + y * w + 1] =
                  PixelAt(g.im, w, x + dx, y + dy)],
        mask |-> [g.mask EXCEPT ![x + y * w + 1] = 255],
        changed |-> TRUE]
  ELSE g

\* The calls of pick in the order of the four loops, as <<x, y, dx, dy>>:
\* for each row the sweep to the right and the sweep to the left, then the
\* sweep down and the sweep up.
RowPicks(w, y) ==
  [k \in 1..(w - 1) |-> <<k - 1, y, 1, 0>>]
    \o [k \in 1..(w - 1) |-> <<w - k, y, -1, 0>>]

RECURSIVE RowsPicks(_, _, _)
RowsPicks(w, h, y) ==
  IF y >= h THEN <<>> ELSE RowPicks(w, y) \o RowsPicks(w, h, y + 1)

RECURSIVE DownPicks(_, _, _)
DownPicks(w, h, y) ==
  IF y >= h - 1 THEN <<>>
  ELSE [k \in 1..w |-> <<k - 1, y, 0, 1>>] \o DownPicks(w, h, y + 1)

RECURSIVE UpPicks(_, _)
UpPicks(w, y) ==
  IF y <= 0 THEN <<>>
  ELSE [k \in 1..w |-> <<k - 1, y, 0, -1>>] \o UpPicks(w, y - 1)

PickOrder(w, h) ==
  RowsPicks(w, h, 0) \o DownPicks(w, h, 0) \o UpPicks(w, h - 1)

\* The calls of pick from the k-th on; each call works on the value the
\* call before it left.
RECURSIVE PickAll(_, _, _, _)
PickAll(g, w, order, k) ==
  IF k > Len(order) THEN g
  ELSE CHOOSE r \in {PickAll(picked, w, order, k + 1) :
                       picked \in {Pick(g, w, order[k][1], order[k][2],
                                        order[k][3], order[k][4])}} : TRUE

\* The CHECK_EQs of GrowBorders.
GrowChecks(image, msk) ==
  /\ image.channels = 1
  /\ image.width = msk.width
  /\ image.height = msk.height
  /\ image.channels = msk.channels

\* GrowBorders(mask) on the pixels im and the mask pixels of a w x h image:
\* the pixels, the mask and the value returned.
GrowBorders(im, mask, w, h) ==
  CHOOSE r \in {PickAll([im |-> im, mask |-> mask, changed |-> FALSE], w,
                        order, 1) : order \in {PickOrder(w, h)}} : TRUE

\* The masks before the first pass: at most MaxSeeds assigned pixels.
SeedMasks ==
  {[i \in 1..(GrowWidth * GrowHeight) |-> IF i \in S THEN 255 ELSE 0] :
     S \in {T \in SUBSET (1..(GrowWidth * GrowHeight)) :
              Cardinality(T) <= MaxSeeds}}

\* Pixel i holds the value i before the first pass.
GrowInit ==
  /\ raster \in [pc : {"grow"},
                 width : {GrowWidth}, height : {GrowHeight},
                 im : {[i \in 1..(GrowWidth * GrowHeight) |-> i]},
                 mask : SeedMasks,
                 before : {<<>>}, passes : {0}]
  /\ quant = Idle /\ merge = Idle /\ codec = Idle /\ pix = Idle
  /\ bits = Idle /\ scale = Idle
  /\ carpix = Idle /\ tool = Idle /\ faces = Idle

\* What a call leaves: the call is repeated when it returned true.
Grown(g) ==
  [pc |-> IF g.changed THEN "grow" ELSE "stable",
   width |-> raster.width, height |-> raster.height,
   im |-> g.im, mask |-> g.mask,
   before |-> <<raster.im, raster.mask>>, passes |-> raster.passes + 1]

\* index.GrowBorders(mask) returns.
GrowBordersCall ==
  /\ raster.pc = "grow"
  /\ GrowChecks([width |-> raster.width, height |-> raster.height,
                 channels |-> 1],
                [width |-> raster.width, height |-> raster.height,
                 channels |-> 1])
  /\ raster' = Grown(GrowBorders(raster.im, raster.mask, raster.width,
                                 raster.height))
  /\ UNCHANGED <<quant, merge, codec, pix, bits, scale,
                 carpix, tool, faces>>

GrowNext == GrowBordersCall

\* The caller that repeats the pass makes its next call.
SpecGrow == GrowInit /\ [][GrowNext]_vars /\ WF_vars(GrowNext)

\* The pixels next to pixel (x, y) in its row and its column.
Neighbours(x, y) ==
  {xy \in {<<x - 1, y>>, <<x + 1, y>>, <<x, y - 1>>, <<x, y + 1>>} :
     /\ 0 <= xy[1] /\ xy[1] < raster.width
     /\ 0 <= xy[2] /\ xy[2] < raster.height}

\* The last pass changed only pixels whose mask was 0, and when the passes
\* have stopped no pixel with mask 0 has a neighbour with another mask.
GrowSafe ==
  /\ (raster.pc \in {"grow", "stable"} /\ raster.passes >= 1) =>
       \A i \in 1..(raster.width * raster.height) :
         raster.before[2][i] # 0 =>
           /\ raster.im[i] = raster.before[1][i]
           /\ raster.mask[i] = raster.before[2][i]
  /\ raster.pc = "stable" =>
       \A x \in 0..(raster.width - 1) : \A y \in 0..(raster.height - 1) :
         PixelAt(raster.mask, raster.width, x, y) = 0 =>
           \A xy \in Neighbours(x, y) :
             PixelAt(raster.mask, raster.width, xy[1], xy[2]) = 0

-----------------------------------------------------------------------------
(* ExtractFacePalettes (car_from_obj.h) over the textured faces of a Model. *)

\* Largest numbers of textured triangles and of textured quads of the Model.
MaxExtractTris == 2
MaxExtractQuads == 1

\* Textured triangles and quads with UVs inside the texture; they overlap.
TriSamples ==
  {[uv0 |-> t[1], uv1 |-> t[2], uv2 |-> t[3], uv3 |-> <<0, 0>>,
    is_quad |-> FALSE] :
     t \in {<<<<0, 0>>, <<10, 0>>, <<0, 10>>>>,
            <<<<10, 10>>, <<10, 0>>, <<0, 10>>>>,
            <<<<2, 2>>, <<8, 3>>, <<5, 9>>>>}}

QuadSamples ==
  {[uv0 |-> q[1], uv1 |-> q[2], uv2 |-> q[3], uv3 |-> q[4],
    is_quad |-> TRUE] :
     q \in {<<<<1, 1>>, <<1, 9>>, <<9, 9>>, <<9, 1>>>>,
            <<<<4, 4>>, <<4, 7>>, <<7, 7>>, <<7, 4>>>>}}

ExtractInit ==
  /\ raster \in [pc : {"model"}, tex : TexKinds,
                 tex_tris : UNION {[1..n -> TriSamples] :
                                     n \in 0..MaxExtractTris},
                 tex_quads : UNION {[1..n -> QuadSamples] :
                                      n \in 0..MaxExtractQuads}]
  /\ quant = Idle /\ merge = Idle /\ codec = Idle /\ pix = Idle
  /\ bits = Idle /\ scale = Idle
  /\ carpix = Idle /\ tool = Idle /\ faces = Idle

\* out.face_indices = Image16(tex.width, tex.height, 1) filled with
\* kInvalidFace, and no palette yet.
ExtractStart(tex) ==
  [palettes |-> <<>>,
   face_indices |-> [width |-> tex.width, height |-> tex.height,
                     channels |-> 1,
                     pixels |-> [i \in 1..(tex.width * tex.height) |->
                                   kInvalidFace]]]

\* out after the face f with the index face_index, 'drawn' being the
\* face-index image its DrawTriangle calls left.
ExtractedFace(out, f, tex, face_index, drawn) ==
  [palettes |-> Append(out.palettes,
                       [colors |-> ExtractFacePalette(f, tex, face_index,
                                                      drawn),
                        face_index |-> {face_index}]),
   face_indices |-> drawn]

\* The two loops over tex_tris and tex_quads, fs being the triangles
\* followed by the quads; face k of fs has the index k - 1.
RECURSIVE ExtractLoop(_, _, _, _)
ExtractLoop(out, fs, tex, k) ==
  IF k > Len(fs) THEN out
  ELSE CHOOSE r \in
         {ExtractLoop(next, fs, tex, k + 1) :
            next \in {ExtractedFace(out, fs[k], tex, k - 1, drawn) :
                        drawn \in {DrawFace(fs[k], k - 1,
                                            out.face_indices)}}} : TRUE

\* The CHECKs of ExtractFacePalettes and of its calls.
ExtractChecks(tex, m) ==
  /\ tex.channels = 4
  /\ \A k \in 1..Len(m.tex_tris) : ~m.tex_tris[k].is_quad
  /\ \A k \in 1..Len(m.tex_quads) : m.tex_quads[k].is_quad
  /\ tex.width <= 256 /\ tex.height <= 256

\* ExtractFacePalettes(tex, m).
ExtractFacePalettes(tex, m) ==
  ExtractLoop(ExtractStart(tex), m.tex_tris \o m.tex_quads, tex, 1)

\* ExtractFacePalettes(tex, m) returns.
ExtractFacePalettesCall ==
  /\ raster.pc = "model"
  /\ ExtractChecks(Texture(raster.tex),
                   [tex_tris |-> raster.tex_tris,
                    tex_quads |-> raster.tex_quads])
  /\ raster' \in
       {[pc |-> "indexed", tex |-> raster.tex, tex_tris |-> raster.tex_tris,
         tex_quads |-> raster.tex_quads, palettes |-> out.palettes,
         face_indices |-> out.face_indices] :
          out \in {ExtractFacePalettes(tx, [tex_tris |-> raster.tex_tris,
                                            tex_quads |-> raster.tex_quads]) :
                     tx \in {Texture(raster.tex)}}}
  /\ UNCHANGED <<quant, merge, codec, pix, bits, scale,
                 carpix, tool, faces>>

ExtractNext == ExtractFacePalettesCall

SpecExtract == ExtractInit /\ [][ExtractNext]_vars

\* The rasterization of the face f covers the pixel (x, y).
Covers(f, x, y) ==
  \/ InSpan(x, y, TriangleEdges(f.uv0, f.uv1, f.uv2))
  \/ f.is_quad /\ InSpan(x, y, TriangleEdges(f.uv0, f.uv2, f.uv3))

\* The ids of the faces of the model that cover the pixel (x, y).
CoveringIds(x, y) ==
  {k \in 0..(Len(raster.tex_tris) - 1) : Covers(raster.tex_tris[k + 1], x, y)}
  \cup
  {Len(raster.tex_tris) + k : k \in
     {j \in 0..(Len(raster.tex_quads) - 1) :
        Covers(raster.tex_quads[j + 1], x, y)}}

\* C27: after ExtractFacePalettes every pixel of the face-index image holds
\* the id of the last-processed face (the one with the largest id) whose
\* rasterization covers the pixel, and 65535 exactly when no face covers it.
C27_LastWriteWins ==
  raster.pc = "indexed" =>
    \A x \in 0..(ImageWidth - 1) : \A y \in 0..(ImageHeight - 1) :
      /\ CoveringIds(x, y) # {} =>
           /\ raster.face_indices.pixels[x + y * ImageWidth + 1]
                \in CoveringIds(x, y)
           /\ \A k \in CoveringIds(x, y) :
                k <= raster.face_indices.pixels[x + y * ImageWidth + 1]
      /\ raster.face_indices.pixels[x + y * ImageWidth + 1] = kInvalidFace
           <=> CoveringIds(x, y) = {}

\* Two overlapping triangles and a quad over both: the pixel (5, 5) is
\* covered by all three and holds the id of the quad, (0, 0) is covered by
\* the first triangle only, and (10, 10) by no face.
C27_Witness ==
  /\ raster.pc = "indexed"
  /\ Len(raster.tex_tris) = 2 /\ Len(raster.tex_quads) = 1
  /\ CoveringIds(5, 5) = {0, 1, 2}
  /\ raster.face_indices.pixels[5 + 5 * ImageWidth + 1] = 2
  /\ CoveringIds(0, 0) = {0}
  /\ raster.face_indices.pixels[1] = 0
  /\ CoveringIds(10, 10) = {}
  /\ raster.face_indices.pixels[10 + 10 * ImageWidth + 1] = kInvalidFace


\* ---------------------------------------------------------------------------
\* WriteObj and ObjState (car_to_obj.h): several models written to one OBJ
\* stream through shared counters.
\* ---------------------------------------------------------------------------

\* The most models written to one stream (a LOD and its wheels).
MaxObjModels == 3

\* Face::is_quad: flags D >> 3 is 0x5.
Face_is_quad(f) == ShiftRight(f.flags_d, 3) = 5

\* Face::is_textured: the low three bits of flags D are 101.
Face_is_textured(f) == BitAnd(f.flags_d, 7) = 5

\* ObjFaceElement::FromString: the numbers of one element, split at "/", are
\* read in the order vertex, UV, normal; a missing one is 0.
ObjFaceElement(tokens) ==
  [i_vert |-> tokens[1],
   i_uv |-> IF Len(tokens) >= 2 THEN tokens[2] ELSE 0,
   i_norm |-> IF Len(tokens) >= 3 THEN tokens[3] ELSE 0]

\* The lambda write(i) of WriteObjFace: the numbers of element i (from 0).
WriteElement(s, f, i) ==
  <<f.i_vert[i + 1] + s.i_vert>>
    \o (IF Face_is_textured(f) THEN <<s.i_uv + i>> ELSE <<>>)
    \o (IF Face_has_normals(f)
          THEN <<Face_i_normal(i, f.data_a, f.data_c) + s.i_normal>>
          ELSE <<>>)

\* WriteObjFace(os, s, f): the elements of the "f" line.
WriteObjFace(s, f) ==
  [i \in 1..(IF Face_is_quad(f) THEN 4 ELSE 3) |-> WriteElement(s, f, i - 1)]

\* WriteObjUvs(os, f): the number of "vt" lines.
WriteObjUvs(f) == IF Face_is_quad(f) THEN 4 ELSE 3

\* state.i_uv += 3 in the loops over tex_tris, += 4 in those over tex_quads.
UvStep(in_quads) == IF in_quads THEN 4 ELSE 3

\* One loop of a material pass over fs from face k: the faces whose
\* has_normals() is with_normals are written, and the UV counter advances
\* for every face.
RECURSIVE WritePass(_, _, _, _, _, _)
WritePass(fs, s, with_normals, in_quads, k, written) ==
  IF k > Len(fs) THEN [state |-> s, written |-> written]
  ELSE WritePass(fs, [s EXCEPT !.i_uv = @ + UvStep(in_quads)], with_normals,
                 in_quads, k + 1,
                 IF Face_has_normals(fs[k]) = with_normals
                   THEN Append(written, WriteObjFace(s, fs[k]))
                   ELSE written)

\* A material pass: the loop over tex_tris, then the loop over tex_quads.
WritePasses(tex_tris, tex_quads, s, with_normals) ==
  LET tris == WritePass(tex_tris, s, with_normals, FALSE, 1, <<>>)
  IN  WritePass(tex_quads, tris.state, with_normals, TRUE, 1, tris.written)

\* The faces of fs written with the counters s (the untextured loops).
WriteFaces(fs, s) == [k \in 1..Len(fs) |-> WriteObjFace(s, fs[k])]

\* faces reversed (std::reverse).
ReverseFaces(fs) == [k \in 1..Len(fs) |-> fs[Len(fs) + 1 - k]]

\* WriteObj from the two passes on: the lines written, the value of the UV
\* counter after each pass, the CHECK_EQ and the new counters.
WriteObjOutput(state, m, tex_tris, tex_quads, diffuse, reflective) ==
  [verts |-> m.verts,
   normals |-> m.normals,
   uvs |-> SumSeq([k \in 1..Len(tex_tris) |-> WriteObjUvs(tex_tris[k])])
             + SumSeq([k \in 1..Len(tex_quads) |-> WriteObjUvs(tex_quads[k])]),
   faces |-> WriteFaces(m.tris, state) \o WriteFaces(m.quads, state)
               \o diffuse.written \o reflective.written,
   i_uv_end |-> diffuse.state.i_uv,
   check_eq |-> reflective.state.i_uv = diffuse.state.i_uv,
   state |-> [i_vert |-> state.i_vert + m.verts,
              i_normal |-> state.i_normal + m.normals,
              i_uv |-> reflective.state.i_uv]]

\* WriteObj from TransferNormals on.
WriteObjPasses(state, m, tex_tris, tex_quads) ==
  WriteObjOutput(state, m, tex_tris, tex_quads,
                 WritePasses(tex_tris, tex_quads, state, FALSE),
                 WritePasses(tex_tris, tex_quads, state, TRUE))

\* WriteObj(os, state, m), for a model m with m.verts vertices and m.normals
\* normals.
WriteObj(state, m) ==
  WriteObjPasses(state, m, TransferNormals(ReverseFaces(m.tex_tris)),
                 TransferNormals(ReverseFaces(m.tex_quads)))

\* A face with flags D (32 triangle, 40 quad, 37 textured triangle,
\* 45 textured quad).
ObjFace(f, flags_d) == [flags_d |-> flags_d] @@ f

\* The models written: a LOD with a decal over base paint, a textured
\* triangle and a textured quad; a LOD whose only face is an untextured
\* triangle with normals (ToCarFace makes one of an OBJ face "v//n"); a wheel
\* with a face of each kind and no normals; and the empty model.
ObjModels ==
  {[verts |-> 4, normals |-> 3, tris |-> <<>>, quads |-> <<>>,
    tex_tris |-> <<ObjFace(NormalFace(<<1, 2, 3, 0>>, 16, <<0, 1, 2, 0>>), 37),
                   ObjFace(PlainFace(<<1, 2, 3, 0>>, 16), 37),
                   ObjFace(PlainFace(<<0, 1, 2, 0>>, 16), 37)>>,
    tex_quads |-> <<ObjFace(PlainFace(<<0, 1, 2, 3>>, 16), 45)>>],
   [verts |-> 3, normals |-> 3,
    tris |-> <<ObjFace(NormalFace(<<0, 1, 2, 0>>, 16, <<0, 1, 2, 0>>), 32)>>,
    quads |-> <<>>, tex_tris |-> <<>>, tex_quads |-> <<>>],
   [verts |-> 4, normals |-> 0,
    tris |-> <<ObjFace(PlainFace(<<0, 1, 2, 0>>, 0), 32)>>,
    quads |-> <<ObjFace(PlainFace(<<0, 1, 2, 3>>, 0), 40)>>,
    tex_tris |-> <<ObjFace(PlainFace(<<1, 2, 3, 0>>, 0), 37)>>,
    tex_quads |-> <<ObjFace(PlainFace(<<3, 2, 1, 0>>, 0), 45)>>],
   [verts |-> 0, normals |-> 0, tris |-> <<>>, quads |-> <<>>,
    tex_tris |-> <<>>, tex_quads |-> <<>>]}

NoLines == [v |-> 0, vn |-> 0, vt |-> 0]

\* A new stream with a new ObjState, and the models to write to it.
ObjInit ==
  /\ \E n \in 1..MaxObjModels : \E todo \in [1..n -> ObjModels] :
       faces = [pc |-> "obj",
                state |-> [i_vert |-> 1, i_normal |-> 1, i_uv |-> 1],
                todo |-> todo, lines |-> NoLines, calls |-> 0,
                before |-> NoLines,
                was |-> [i_vert |-> 1, i_normal |-> 1, i_uv |-> 1],
                out |-> WriteObj([i_vert |-> 1, i_normal |-> 1, i_uv |-> 1],
                                 [verts |-> 0, normals |-> 0, tris |-> <<>>,
                                  quads |-> <<>>, tex_tris |-> <<>>,
                                  tex_quads |-> <<>>]),
                m |-> [verts |-> 0, normals |-> 0, tris |-> <<>>,
                       quads |-> <<>>, tex_tris |-> <<>>, tex_quads |-> <<>>]]
  /\ quant = Idle /\ merge = Idle /\ codec = Idle /\ pix = Idle
  /\ bits = Idle /\ scale = Idle /\ raster = Idle /\ carpix = Idle
  /\ tool = Idle

\* One WriteObj(f, state, m) of SaveObj: lines counts the "v", "vn" and "vt"
\* lines of the stream, before those of the stream before the call.
WriteObjCall ==
  /\ faces.pc = "obj"
  /\ faces.todo # <<>>
  /\ \E out \in {WriteObj(faces.state, Head(faces.todo))} :
       faces' = [pc |-> "obj", state |-> out.state, todo |-> Tail(faces.todo),
                 lines |-> [v |-> faces.lines.v + out.verts,
                            vn |-> faces.lines.vn + out.normals,
                            vt |-> faces.lines.vt + out.uvs],
                 calls |-> faces.calls + 1,
                 before |-> faces.lines, was |-> faces.state, out |-> out,
                 m |-> Head(faces.todo)]
  /\ UNCHANGED <<quant, merge, codec, pix, bits, scale, raster,
                 carpix, tool>>

ObjNext == WriteObjCall

SpecObj == ObjInit /\ [][ObjNext]_vars

\* The counters after a call: each has advanced by what the call wrote, the
\* UV counter by 3 per textured triangle and 4 per textured quad, with the
\* same value after the Diffuse and the Reflective pass.
CountersAdvanced ==
  /\ faces.state.i_vert = faces.was.i_vert + faces.out.verts
  /\ faces.state.i_normal = faces.was.i_normal + faces.out.normals
  /\ faces.state.i_uv
       = faces.was.i_uv + 3 * Len(faces.m.tex_tris)
           + 4 * Len(faces.m.tex_quads)
  /\ faces.out.i_uv_end = faces.state.i_uv
  /\ faces.out.check_eq
  /\ faces.state.i_vert = faces.lines.v + 1
  /\ faces.state.i_normal = faces.lines.vn + 1
  /\ faces.state.i_uv = faces.lines.vt + 1

\* Element e of a written face, as an OBJ reader reads it, refers only to
\* lines of the last call.
RefersWithinCall(e) ==
  /\ e.i_vert \in (faces.before.v + 1)..faces.lines.v
  /\ e.i_uv = 0 \/ e.i_uv \in (faces.before.vt + 1)..faces.lines.vt
  /\ e.i_norm = 0 \/ e.i_norm \in (faces.before.vn + 1)..faces.lines.vn

\* C29: for any sequence of WriteObj calls that share one ObjState, each call
\* advances the vertex counter by the vertices it wrote, the normal counter
\* by the normals it wrote and the UV counter by 3 per textured triangle plus
\* 4 per textured quad (the same after the Diffuse and the Reflective pass),
\* so that every face written by a call refers only to vertices, normals and
\* UVs written by that same call.
C29_FacesReferWithinCall ==
  (faces.pc = "obj" /\ faces.calls > 0) =>
    /\ CountersAdvanced
    /\ \A k \in 1..Len(faces.out.faces) :
         \A i \in 1..Len(faces.out.faces[k]) :
           RefersWithinCall(ObjFaceElement(faces.out.faces[k][i]))

\* The counters advance as stated after every call, and every written face
\* that is textured or has no normals refers only to lines of its call.
ObjCountersAdvance ==
  (faces.pc = "obj" /\ faces.calls > 0) =>
    /\ CountersAdvanced
    /\ \A k \in 1..Len(faces.out.faces) :
         \A i \in 1..Len(faces.out.faces[k]) :
           Len(faces.out.faces[k][i]) # 2
             \/ faces.out.faces[k][i][2] \in
                  (faces.before.vt + 1)..faces.lines.vt
             => RefersWithinCall(ObjFaceElement(faces.out.faces[k][i]))

\* A second call has written faces of both passes after a first call that
\* wrote vertices, normals and UVs.
ObjSecondCallWritten ==
  /\ faces.pc = "obj" /\ faces.calls = 2
  /\ faces.before.v > 0 /\ faces.before.vn > 0 /\ faces.before.vt > 0
  /\ Len(faces.out.faces) = 4

\* ---------------------------------------------------------------------------
\* PackCdo, from the wheel area to the end of the loop over the LODs
\* (cdotool.cpp): one CarPix palette and one colour-index image are filled
\* from the texture for the wheel and for every LOD in turn.
\* ---------------------------------------------------------------------------

\* The most OBJ files found (obj_paths.size()).
MaxPackObjs == 2

\* max_colors of every QuantizeColors and MergePalettes call of PackCdo.
kMaxColors == 16
\* The number of colours of a CarPix palette.
kPaletteColors == 256
\* first_palette_index of LOD 0.
kFirstLodPalette == 3
\* max_palettes of LOD 0.
kLod0Palettes == 12
\* The side of the wheel area: 48 of the 256 columns in PackCdo, scaled to
\* the width of the textures here.
WheelSide == 4

\* ExtractWheelPalette(tex): the face made up for the wheel area, and the
\* palette data of that one face.
WheelFace ==
  [uv0 |-> <<0, 0>>, uv1 |-> <<0, WheelSide>>,
   uv2 |-> <<WheelSide, WheelSide>>, uv3 |-> <<WheelSide, 0>>,
   is_quad |-> TRUE]

ExtractWheelPalette(tex) ==
  CHOOSE r \in {ExtractedFace(ExtractStart(tex), WheelFace, tex, 0, drawn) :
                  drawn \in {DrawFace(WheelFace, 0,
                                      ExtractStart(tex).face_indices)}} : TRUE

\* The CHECKs of UpdateCarPixSubPalettes.
SubPalettesChecks(palettes, first_sub_palette_index) ==
  /\ first_sub_palette_index + Len(palettes) <= 16
  /\ \A i \in 1..Len(palettes) : NumColors(palettes[i]) <= 16

\* The palettes (counted from 1) that have a colour for position k of the
\* CarPix palette.
RowsWriting(palettes, i0, k) ==
  {i \in 1..Len(palettes) :
     /\ k >= 16 * (i0 + i - 1)
     /\ k < 16 * (i0 + i - 1) + NumColors(palettes[i])}

\* UpdateCarPixSubPalettes(palettes, first_sub_palette_index, cdp_palette):
\* the new cdp_palette.data; the colours of palette i go to the positions
\* from 16 * (i0 + i) in map order, and a later palette overwrites.
UpdateCarPixSubPalettes(palettes, i0, data) ==
  [k \in 0..(kPaletteColors - 1) |->
     IF RowsWriting(palettes, i0, k) = {} THEN data[k]
     ELSE LET i == CHOOSE r \in RowsWriting(palettes, i0, k) :
                     \A q \in RowsWriting(palettes, i0, k) : q <= r
          IN  SortedKeys(DOMAIN palettes[i].colors)[k - 16 * (i0 + i - 1) + 1]]

\* face_to_palette: the palettes (from 0) that have the face f; the last one
\* of the loop is the one the map keeps.
PalettesWithFace(palettes, f) ==
  {i \in 0..(Len(palettes) - 1) : f \in palettes[i + 1].face_index}

FaceToPalette(palettes, f) ==
  CHOOSE i \in PalettesWithFace(palettes, f) :
    \A q \in PalettesWithFace(palettes, f) : q <= i

\* The scan of the palette row from colour c (counted from 1): c_best is the
\* first colour at the least distance, 0 for an empty row.
RECURSIVE BestColor(_, _, _, _, _)
BestColor(color, keys, c, c_best, d_best) ==
  IF c > Len(keys) THEN c_best
  ELSE IF ColorDistSq(color, keys[c]) < d_best
    THEN BestColor(color, keys, c + 1, c - 1, ColorDistSq(color, keys[c]))
  ELSE BestColor(color, keys, c + 1, c_best, d_best)

\* The colour of pixel i (from 0) of the texture.
TextureColor(texture, i) ==
  RgbaToColor16(texture.pixels[4 * i + 1], texture.pixels[4 * i + 2],
                texture.pixels[4 * i + 3], texture.pixels[4 * i + 4])

\* UpdateCarPixColorIndex(texture, data, out_index, out_mask): the pixels of
\* the two images afterwards.
UpdateCarPixColorIndex(texture, data, out_index, out_mask) ==
  [index |->
     [i \in 1..Len(out_index) |->
        IF PalettesWithFace(data.palettes, data.face_indices.pixels[i]) = {}
        THEN out_index[i]
        ELSE BestColor(
               TextureColor(texture, i - 1),
               SortedKeys(DOMAIN data.palettes[
                 FaceToPalette(data.palettes,
                               data.face_indices.pixels[i]) + 1].colors),
               1, 0, kInt64Max)],
   mask |->
     [i \in 1..Len(out_mask) |->
        IF PalettesWithFace(data.palettes, data.face_indices.pixels[i]) = {}
        THEN out_mask[i] ELSE 255]]

\* Textured faces of the OBJ files: a triangle over both halves of the
\* texture, a quad inside the triangle and the right half, and a quad apart
\* from both.
PackTri ==
  [uv0 |-> <<0, 0>>, uv1 |-> <<10, 0>>, uv2 |-> <<0, 10>>, uv3 |-> <<0, 0>>,
   is_quad |-> FALSE, pal_data |-> 17]
PackQuadInside ==
  [uv0 |-> <<6, 1>>, uv1 |-> <<6, 3>>, uv2 |-> <<8, 3>>, uv3 |-> <<8, 1>>,
   is_quad |-> TRUE, pal_data |-> 17]
PackQuadApart ==
  [uv0 |-> <<8, 8>>, uv1 |-> <<8, 10>>, uv2 |-> <<11, 10>>, uv3 |-> <<11, 8>>,
   is_quad |-> TRUE, pal_data |-> 17]

\* The textured faces of a LOD after UpdateFromObj.
PackModels ==
  {[tex_tris |-> <<PackTri>>, tex_quads |-> <<>>],
   [tex_tris |-> <<>>, tex_quads |-> <<PackQuadInside>>],
   [tex_tris |-> <<PackTri>>, tex_quads |-> <<PackQuadApart>>],
   [tex_tris |-> <<>>, tex_quads |-> <<PackQuadApart>>]}

NoModel == [tex_tris |-> <<>>, tex_quads |-> <<>>]

\* PackCdo before the wheel area: a cleared palette (InitCarPix) and the
\* images color_index and color_mask of the size of the texture.
PackInit ==
  /\ \E kind \in TexKinds : \E n \in 0..MaxPackObjs :
       \E objs \in [1..n -> PackModels] :
         carpix = [pc |-> "pack_wheel", tex |-> kind, objs |-> objs,
                   i |-> 0, first_palette_index |-> kFirstLodPalette,
                   data |-> [k \in 0..(kPaletteColors - 1) |-> 0],
                   color_index |-> [p \in 1..(ImageWidth * ImageHeight) |-> 0],
                   color_mask |-> [p \in 1..(ImageWidth * ImageHeight) |-> 0],
                   lods |-> <<>>]
  /\ quant = Idle /\ merge = Idle /\ codec = Idle /\ pix = Idle
  /\ bits = Idle /\ scale = Idle /\ raster = Idle /\ tool = Idle
  /\ faces = Idle

\* The wheel area: ExtractWheelPalette, QuantizeColors,
\* UpdateCarPixSubPalettes at sub-palette 0 and UpdateCarPixColorIndex.
WheelUpdate(texture, texpal) ==
  /\ Len(texpal.palettes) = 1
  /\ SubPalettesChecks(texpal.palettes, 0)
  /\ \E upd \in {UpdateCarPixColorIndex(texture, texpal, carpix.color_index,
                                        carpix.color_mask)} :
       carpix' = [carpix EXCEPT
                    !.pc = "pack_lod",
                    !.data = UpdateCarPixSubPalettes(texpal.palettes, 0, @),
                    !.color_index = upd.index,
                    !.color_mask = upd.mask]

PackWheelCall ==
  /\ carpix.pc = "pack_wheel"
  /\ \E texture \in {Texture(carpix.tex)} :
       \E wheel \in {ExtractWheelPalette(texture)} :
         WheelUpdate(texture,
                     [palettes |-> QuantizeAll(wheel.palettes, kMaxColors),
                      face_indices |-> wheel.face_indices])
  /\ UNCHANGED <<quant, merge, codec, pix, bits, scale, raster, tool, faces>>

\* The pc after iteration i of the loop over the LODs.
AfterLod(i) == IF i + 1 >= kPackedLods THEN "pack_done" ELSE "pack_lod"

\* The body of the loop from AssignPaletteIndicesToFaces on, for the merged
\* palettes of the LOD.
LodUpdate(texture, m, palettes, face_indices, max_palettes) ==
  /\ Len(palettes) <= max_palettes
  /\ SubPalettesChecks(palettes, carpix.first_palette_index)
  /\ \E upd \in {UpdateCarPixColorIndex(
                   texture,
                   [palettes |-> palettes, face_indices |-> face_indices],
                   carpix.color_index, carpix.color_mask)} :
       carpix' = [carpix EXCEPT
                    !.pc = AfterLod(carpix.i),
                    !.i = @ + 1,
                    !.first_palette_index = @ - 1,
                    !.data = UpdateCarPixSubPalettes(
                               palettes, carpix.first_palette_index, @),
                    !.color_index = upd.index,
                    !.color_mask = upd.mask,
                    !.lods = Append(@,
                               [m |-> AssignPaletteIndicesToFaces(
                                        [k \in 1..Len(palettes) |->
                                           palettes[k].face_index],
                                        carpix.first_palette_index, m),
                                palettes |-> palettes,
                                face_indices |-> face_indices])]

\* The body from MergePalettes on, the rankings deciding its three sorts.
LodMerge(texture, m, texpal, max_palettes) ==
  \E tie1, tie2, tie3 \in TieBreaks(Len(texpal.palettes)) :
    \E r \in {MergePalettes(texpal.palettes, max_palettes, kMaxColors,
                            tie1, tie2, tie3)} :
      /\ r.ok
      /\ LodUpdate(texture, m, r.palettes, texpal.face_indices, max_palettes)

\* One iteration of the loop over the LODs for a LOD that has an OBJ file.
PackLodCall ==
  /\ carpix.pc = "pack_lod"
  /\ carpix.i < Len(carpix.objs)
  /\ ExtractChecks(Texture(carpix.tex), carpix.objs[carpix.i + 1])
  /\ \E texture \in {Texture(carpix.tex)} :
       \E texpal \in {ExtractFacePalettes(texture,
                                          carpix.objs[carpix.i + 1])} :
         LodMerge(texture, carpix.objs[carpix.i + 1], texpal,
                  IF carpix.i = 0 THEN kLod0Palettes ELSE 1)
  /\ UNCHANGED <<quant, merge, codec, pix, bits, scale, raster, tool, faces>>

\* One iteration for a LOD without OBJ file: cdo.lods[i] = Model(); continue.
PackLodSkip ==
  /\ carpix.pc = "pack_lod"
  /\ carpix.i >= Len(carpix.objs)
  /\ carpix' = [carpix EXCEPT
                  !.pc = AfterLod(carpix.i),
                  !.i = @ + 1,
                  !.lods = Append(@, [m |-> NoModel, palettes |-> <<>>,
                                      face_indices |->
                                        ExtractStart(Texture(carpix.tex))
                                          .face_indices])]
  /\ UNCHANGED <<quant, merge, codec, pix, bits, scale, raster, tool, faces>>

PackNext == PackWheelCall \/ PackLodCall \/ PackLodSkip

SpecPack == PackInit /\ [][PackNext]_vars

\* The faces of the model m, the triangles first, so that face k + 1 has
\* the index k.
TexFaces(m) == m.tex_tris \o m.tex_quads

\* The least distance of the colour c to a colour of the set S.
NearestDist(c, S) ==
  CHOOSE d \in {ColorDistSq(c, s) : s \in S} :
    \A s \in S : d <= ColorDistSq(c, s)

\* The palette of the LOD that has the face with the index f.
AssignedColors(lod, f) ==
  DOMAIN lod.palettes[FaceToPalette(lod.palettes, f) + 1].colors

\* Pixel p (from 1) owned by the face with the index f of the LOD is
\* consistent: its stored index is below 16 and selects, in the sub-palette
\* of the face, a colour of the face's palette nearest to the texture.
PixelConsistent(lod, f, p) ==
  /\ carpix.color_index[p] < 16
  /\ PalettesWithFace(lod.palettes, f) # {}
  /\ AssignedColors(lod, f) # {}
  /\ carpix.data[16 * TexFace_i_palette(TexFaces(lod.m)[f + 1].pal_data)
                   + carpix.color_index[p]] \in AssignedColors(lod, f)
  /\ ColorDistSq(TextureColor(Texture(carpix.tex), p - 1),
                 carpix.data[16 * TexFace_i_palette(
                                    TexFaces(lod.m)[f + 1].pal_data)
                               + carpix.color_index[p]])
       = NearestDist(TextureColor(Texture(carpix.tex), p - 1),
                     AssignedColors(lod, f))

\* Every pixel a face of the LOD owns in the LOD's face-index image is
\* consistent.
LodConsistent(lod) ==
  \A p \in 1..(ImageWidth * ImageHeight) :
    lod.face_indices.pixels[p] # kInvalidFace =>
      PixelConsistent(lod, lod.face_indices.pixels[p], p)

\* C24: at the end of packing all LODs and the wheel region into one CarPix,
\* before border growth, face-to-palette assignment is self-consistent for
\* every LOD: for every pixel that a textured face f of that LOD owns in that
\* LOD's face-index image, the stored index is below 16 and the CarPix colour
\* at position 16 * f.i_palette() + index is the colour of f's assigned
\* sub-palette nearest to the pixel's converted texture colour, also when the
\* UV areas of different LODs overlap.
C24_LodsConsistent ==
  carpix.pc = "pack_done" =>
    \A l \in 1..Len(carpix.lods) : LodConsistent(carpix.lods[l])

\* A pixel of the LOD is owned by a face of a later LOD too.
OverlapsLater(l, p) ==
  \E q \in (l + 1)..Len(carpix.lods) :
    carpix.lods[q].face_indices.pixels[p] # kInvalidFace

\* After every iteration, the pixels of each LOD that no later LOD owns are
\* consistent; those of the LOD written last all are.
PackLastWriterConsistent ==
  carpix.pc \in {"pack_lod", "pack_done"} =>
    \A l \in 1..Len(carpix.lods) :
      \A p \in 1..(ImageWidth * ImageHeight) :
        (carpix.lods[l].face_indices.pixels[p] # kInvalidFace
           /\ ~OverlapsLater(l, p))
          => PixelConsistent(carpix.lods[l],
                             carpix.lods[l].face_indices.pixels[p], p)

\* Two LODs with faces apart from each other have been packed over the
\* two-colour texture.
PackedApart ==
  /\ carpix.pc = "pack_done" /\ carpix.tex = "halves"
  /\ Len(carpix.objs) = 2
  /\ carpix.lods[1].m.tex_tris # <<>>
  /\ carpix.lods[2].m.tex_quads # <<>>
  /\ \A p \in 1..(ImageWidth * ImageHeight) :
       carpix.lods[1].face_indices.pixels[p] # kInvalidFace
         => ~OverlapsLater(1, p)
=============================================================================
